---- MODULE Spec2Model ----
(***************************************************************************)
(* A model of lib/calculator.ts and lib/tokenizer.worker.ts of             *)
(* what-the-token: the usage aggregator, the per-conversation processor    *)
(* with its rolling-context accumulator, the orchestrator, and the         *)
(* request/response protocol of the tokenizer worker.                      *)
(*                                                                         *)
(* Numbers.  Token counts are naturals.  A cost is kept exactly, in units  *)
(* of 1e-8 USD: a rate of the pricing table (USD per million tokens) is    *)
(* stored times 100, so that cost = in * rate.input + out * rate.output.   *)
(* A timestamp is the pair <<q, r>> standing for the number 1000*q + r.    *)
(* A day key is the number of the UTC day since the epoch, which is in     *)
(* one-to-one, order-preserving correspondence with the YYYY-MM-DD string  *)
(* that getDayKey formats.  A text is an abstract value known by the       *)
(* number of tokens the encoder gives it (0 for the empty text).  Costs    *)
(* are added exactly: the rounding of IEEE doubles is not modelled.        *)
(***************************************************************************)
EXTENDS Integers, Sequences, FiniteSets, TLC

\* ------------------------------------------------------------------------
\* Pricing tables
\* ------------------------------------------------------------------------

\* The slugs of the model: a part of the pricing table and one stranger.
TextSlugs == {"gpt-4o", "gpt-4o-mini", "research"}
ImageSlugs == {"dalle-2", "dalle-3", "gpt-image-1"}
UnknownModel == "unknown_model"
AllSlugs == TextSlugs \cup ImageSlugs \cup {"foo-bar", UnknownModel}

ZeroRate == [input |-> 0, output |-> 0]

\* MODEL_COSTS as the module is loaded (rates times 100).
InitialModelCosts ==
  [s \in TextSlugs \cup ImageSlugs |->
     CASE s = "gpt-4o" -> [input |-> 500, output |-> 1500]
       [] s = "gpt-4o-mini" -> [input |-> 15, output |-> 60]
       [] s = "research" -> [input |-> 110, output |-> 440]
       [] OTHER -> ZeroRate]

\* IMAGE_MODEL_COSTS: flat USD per image, in units of 1e-8 USD.
IMAGE_MODEL_COSTS ==
  [s \in ImageSlugs |->
     CASE s = "dalle-2" -> 2000000
       [] s = "dalle-3" -> 8000000
       [] OTHER -> 16700000]

\* ------------------------------------------------------------------------
\* Aggregation data structures
\* ------------------------------------------------------------------------

Hours == 0 .. 23
CounterFields ==
  {"input_tokens", "output_tokens", "cost", "message_count", "conversation_count"}

createHourBucket ==
  [input_tokens |-> 0, output_tokens |-> 0, cost |-> 0,
   message_count |-> 0, conversation_count |-> 0]

createBucketWithHours ==
  [input_tokens |-> 0, output_tokens |-> 0, cost |-> 0,
   message_count |-> 0, conversation_count |-> 0,
   hours |-> [h \in Hours |-> createHourBucket]]

\* models is a function whose domain is the set of slugs with a bucket.
createDayBucket ==
  [total |-> createBucketWithHours, models |-> << >>]

\* f with key k set to v, k added to the domain when it is new.
Put(f, k, v) ==
  [x \in DOMAIN f \cup {k} |-> IF x = k THEN v ELSE f[x]]

\* The cost of one update (lines 649-661).
getCost(costs, modelSlug, inputTokens, outputTokens) ==
  IF modelSlug \in DOMAIN IMAGE_MODEL_COSTS
  THEN outputTokens * IMAGE_MODEL_COSTS[modelSlug]
  ELSE LET costCfg == IF modelSlug \in DOMAIN costs
                      THEN costs[modelSlug] ELSE ZeroRate
       IN inputTokens * costCfg.input + outputTokens * costCfg.output

\* AddUsage counting a conversation with every message.
AddUsageAndConversation(b, inputTokens, outputTokens, cost) ==
  [b EXCEPT !.input_tokens = @ + inputTokens,
            !.output_tokens = @ + outputTokens,
            !.cost = @ + cost,
            !.message_count = @ + 1,
            !.conversation_count = @ + 1]

\* The four assignments to one hour bucket or to one bucket's daily totals.
AddUsage(b, inputTokens, outputTokens, cost) ==
  [b EXCEPT !.input_tokens = @ + inputTokens,
            !.output_tokens = @ + outputTokens,
            !.cost = @ + cost,
            !.message_count = @ + 1]

\* A BucketWithHours after its hour bucket and its daily totals were updated.
AddToBucket(b, hour, inputTokens, outputTokens, cost) ==
  LET withHour ==
        [b EXCEPT !.hours[hour] = AddUsage(@, inputTokens, outputTokens, cost)]
  IN AddUsage(withHour, inputTokens, outputTokens, cost)

\* updateAggregatorUsage with the day total left out for an image model.
updateAggregatorUsageSkipsTotal(usageByDay, costs, dayKey, hour, modelSlug, inputTokens, outputTokens) ==
  LET dayBucket == IF dayKey \in DOMAIN usageByDay
                   THEN usageByDay[dayKey] ELSE createDayBucket
      modelBucket == IF modelSlug \in DOMAIN dayBucket.models
                     THEN dayBucket.models[modelSlug]
                     ELSE createBucketWithHours
      cost == getCost(costs, modelSlug, inputTokens, outputTokens)
  IN Put(usageByDay, dayKey,
         [total |-> IF modelSlug \in DOMAIN IMAGE_MODEL_COSTS
                    THEN dayBucket.total
                    ELSE AddToBucket(dayBucket.total, hour,
                                     inputTokens, outputTokens, cost),
          models |-> Put(dayBucket.models, modelSlug,
                         AddToBucket(modelBucket, hour,
                                     inputTokens, outputTokens, cost))])

\* usageByDay after updateAggregatorUsage(aggregator, dayKey, hour, ...).
updateAggregatorUsage(usageByDay, costs, dayKey, hour, modelSlug, inputTokens, outputTokens) ==
  LET dayBucket == IF dayKey \in DOMAIN usageByDay
                   THEN usageByDay[dayKey] ELSE createDayBucket
      modelBucket == IF modelSlug \in DOMAIN dayBucket.models
                     THEN dayBucket.models[modelSlug]
                     ELSE createBucketWithHours
      cost == getCost(costs, modelSlug, inputTokens, outputTokens)
  IN Put(usageByDay, dayKey,
         [total |-> AddToBucket(dayBucket.total, hour,
                                inputTokens, outputTokens, cost),
          models |-> Put(dayBucket.models, modelSlug,
                         AddToBucket(modelBucket, hour,
                                     inputTokens, outputTokens, cost))])

\* ------------------------------------------------------------------------
\* Date and time helpers
\* ------------------------------------------------------------------------

\* The number 1e11 of getDayKey, as a timestamp pair.
MsThresholdQ == 100000000

\* unixTime > 1e11
IsMilliseconds(t) ==
  t.q > MsThresholdQ \/ (t.q = MsThresholdQ /\ t.r > 0)

\* The seconds getDayKey and getHourOfDay build their Date from.
ToSeconds(t) ==
  IF IsMilliseconds(t) THEN t.q ELSE 1000 * t.q + t.r

getDayKey(t) == ToSeconds(t) \div 86400

getHourOfDay(t) == (ToSeconds(t) \div 3600) % 24

\* The timestamp pair of a whole number of seconds.
OfSeconds(s) == [q |-> s \div 1000, r |-> s % 1000]

\* ------------------------------------------------------------------------
\* Image token estimation
\* ------------------------------------------------------------------------

CeilDiv(a, b) == (a + b - 1) \div b

\* countImageTokens without the scaling of lines 477-486.
countImageTokensUnscaled(width, height, detail) ==
  IF detail = "low" THEN 85
  ELSE 85 + 170 * (CeilDiv(width, 512) * CeilDiv(height, 512))

\* Lines 467-496.  The scaled side is floor(2048 * short / long); the code
\* computes it through the double width / height, which for some sizes
\* gives one pixel less without ever changing the number of tiles.
countImageTokens(width, height, detail) ==
  IF detail = "low" THEN 85
  ELSE LET big == width > 2048 \/ height > 2048
           w == IF ~big THEN width
                ELSE IF width > height THEN 2048
                ELSE (2048 * width) \div height
           h == IF ~big THEN height
                ELSE IF width > height THEN (2048 * height) \div width
                ELSE 2048
       IN 85 + 170 * (CeilDiv(w, 512) * CeilDiv(h, 512))

\* ------------------------------------------------------------------------
\* The input: conversations, nodes, parts
\* ------------------------------------------------------------------------

\* A part of msg.content.parts.  kind is "str" (a text of tok tokens),
\* "obj" (an object) or "null"; width and height are 0 when absent.
StrPart(n) ==
  [kind |-> "str", tok |-> n, asset_pointer |-> FALSE, content_type |-> "",
   width |-> 0, height |-> 0, generation |-> FALSE, dalle |-> FALSE]

ImagePart(w, h) ==
  [kind |-> "obj", tok |-> 0, asset_pointer |-> TRUE,
   content_type |-> "image_asset_pointer",
   width |-> w, height |-> h, generation |-> FALSE, dalle |-> FALSE]

ObjPart ==
  [kind |-> "obj", tok |-> 0, asset_pointer |-> FALSE, content_type |-> "",
   width |-> 0, height |-> 0, generation |-> FALSE, dalle |-> FALSE]

\* A node with a message.  A slug or name that is absent is "".  A text
\* field (text, result, about_model_message, the serialized
\* search_result_groups and citations, the thoughts) holds its token count,
\* 0 when the field is absent or empty.
BaseNode ==
  [hasMessage |-> TRUE, role |-> "user", name |-> "",
   msg_slug |-> "", node_slug |-> "",
   content_type |-> "text", partsIsArray |-> TRUE, parts |-> << >>,
   text |-> 0, result |-> 0, about_model_message |-> 0,
   thoughts |-> 0, search_result_groups |-> 0,
   citations |-> 0, deepresch |-> FALSE,
   reasoning_status |-> "", image_gen_async |-> FALSE, generation |-> FALSE,
   end_turn |-> FALSE, channel |-> ""]

IsImagePointer(p) == p.kind = "obj" /\ p.content_type = "image_asset_pointer"

\* part.asset_pointer || part.content_type === "image_asset_pointer"
IsImageAsset(p) == p.asset_pointer \/ p.content_type = "image_asset_pointer"

RECURSIVE SumSeq(_)
\* The sum of a sequence of numbers.
SumSeq(s) ==
  IF s = << >> THEN 0 ELSE Head(s) + SumSeq(Tail(s))

\* w = part.width || 1024 and h = part.height || 1024, detail "high".
PartImageTokens(p) ==
  countImageTokens(IF p.width = 0 THEN 1024 ELSE p.width,
                   IF p.height = 0 THEN 1024 ELSE p.height, "high")

\* The number of parts with content_type "image_asset_pointer".
NumImages(parts) ==
  Cardinality({i \in DOMAIN parts : IsImagePointer(parts[i])})

\* ------------------------------------------------------------------------
\* processMappedMessages: one node to one flat entry
\* ------------------------------------------------------------------------

\* The parts the loops iterate over: none unless parts is an array.
PartsOf(node) == IF node.partsIsArray THEN node.parts ELSE << >>

\* contentTokens of a user or system message (lines 880-910).
UserContentTokens(node) ==
  LET parts == PartsOf(node)
      fromParts ==
        SumSeq([i \in DOMAIN parts |->
                  CASE parts[i].kind = "str" -> parts[i].tok
                    [] parts[i].kind = "obj" ->
                         IF IsImageAsset(parts[i])
                         THEN PartImageTokens(parts[i]) ELSE 20
                    [] OTHER -> 0])
      fromText == IF node.partsIsArray THEN fromParts ELSE node.text
  IN fromText + node.about_model_message

\* searchTokens of a tool message (lines 917-929).
ToolSearchTokens(node) == node.search_result_groups

\* contentTokens a tool message gets from its string parts (lines 932-938).
ToolContentTokens(node) ==
  LET parts == PartsOf(node)
  IN SumSeq([i \in DOMAIN parts |->
               IF parts[i].kind = "str" THEN parts[i].tok ELSE 0])

\* numDalleImages when the author is dalle.text2im, else 0 (lines 941-947).
NumDalleImages(node) ==
  IF node.name = "dalle.text2im" THEN NumImages(PartsOf(node)) ELSE 0

\* hasAsyncImageGen (lines 965-972).
HasAsyncImageGen(node) ==
  LET parts == PartsOf(node)
  IN \/ node.image_gen_async
     \/ \E i \in DOMAIN parts : IsImagePointer(parts[i])
     \/ node.generation
     \/ \E i \in DOMAIN parts : parts[i].kind = "obj" /\ parts[i].generation
     \/ \E i \in DOMAIN parts : parts[i].kind = "obj" /\ parts[i].dalle

\* numImages when hasAsyncImageGen, else 0 (lines 974-978).
NumAsyncImages(node) ==
  IF HasAsyncImageGen(node) THEN NumImages(PartsOf(node)) ELSE 0

\* contentTokens added in the assistant/tool section (lines 1015-1069).
AssistantContentTokens(node) ==
  LET parts == PartsOf(node)
      execution == IF node.content_type = "execution_output"
                   THEN node.text ELSE 0
      tether == IF node.content_type = "tether_quote" /\ node.text > 0
                THEN node.text
                ELSE IF node.content_type = "tether_browsing_display"
                THEN node.result ELSE 0
      images ==
        SumSeq([i \in DOMAIN parts |->
                  IF parts[i].kind = "obj" /\ IsImageAsset(parts[i])
                  THEN PartImageTokens(parts[i]) ELSE 0])
  IN execution + tether + node.citations + images

\* outputTokens of an assistant or tool message (lines 997-1074).
AssistantOutputTokens(node) ==
  LET parts == PartsOf(node)
      thoughts == IF node.content_type = "thoughts" THEN node.thoughts ELSE 0
      code == IF node.content_type = "code" THEN node.text ELSE 0
      fromParts ==
        SumSeq([i \in DOMAIN parts |->
                  CASE parts[i].kind = "str" -> parts[i].tok
                    [] parts[i].kind = "obj" ->
                         IF IsImageAsset(parts[i]) THEN 0 ELSE 20
                    [] OTHER -> 0])
  IN thoughts + code + fromParts + node.text

\* The model slug of the entry (lines 870-871 and 1045-1047).
EntrySlug(node) ==
  LET first == IF node.msg_slug # "" THEN node.msg_slug
               ELSE IF node.node_slug # "" THEN node.node_slug
               ELSE UnknownModel
  IN IF node.role \in {"assistant", "tool"} /\ node.citations > 0
        /\ node.deepresch
     THEN "research" ELSE first

\* The entry pushed to nodeMessages (lines 1078-1092).
FlatEntry(node) ==
  [role |-> node.role,
   contentTokens |->
     (IF node.role \in {"user", "system"} THEN UserContentTokens(node) ELSE 0)
     + (IF node.role = "tool" THEN ToolContentTokens(node) ELSE 0)
     + (IF node.role \in {"assistant", "tool"}
        THEN AssistantContentTokens(node) ELSE 0),
   outputTokens |->
     IF node.role \in {"assistant", "tool"}
     THEN AssistantOutputTokens(node) ELSE 0,
   searchTokens |-> IF node.role = "tool" THEN ToolSearchTokens(node) ELSE 0,
   model_slug |-> EntrySlug(node),
   isReasoningRecap |-> node.content_type = "reasoning_recap"
                        \/ node.reasoning_status = "reasoning_ended",
   isFinalMessage |-> node.end_turn \/ node.channel = "final"]

\* ------------------------------------------------------------------------
\* The inputs of the model
\* ------------------------------------------------------------------------

\* The longest input array.
MaxConvs == 2

\* create_time of a conversation: absent, or a number.
NoTime == [kind |-> "missing", q |-> 0, r |-> 0]
TimeOf(q0, r0) == [kind |-> "number", q |-> q0, r |-> r0]

\* 2023-11-14 22:13:20 UTC and 2023-11-16 02:00:00 UTC, in seconds, and
\* 2023-07-22 04:26:40 UTC in milliseconds.
TimeA == TimeOf(1700000, 0)
TimeB == TimeOf(1700100, 0)
TimeMs == TimeOf(1690000000, 0)

\* The values Date.now() / 1000 takes, in whole seconds: two later days.
Clock == {1800000000, 1800090000}

UserNode(n) == [BaseNode EXCEPT !.parts = <<StrPart(n)>>]

AssistantNode(slug, n, final) ==
  [BaseNode EXCEPT !.role = "assistant", !.msg_slug = slug,
                   !.parts = <<StrPart(n)>>, !.end_turn = final]

\* A tool message of dalle.text2im with two generated images.
DalleNode ==
  [BaseNode EXCEPT !.role = "tool", !.name = "dalle.text2im",
                   !.content_type = "multimodal_text",
                   !.parts = <<ImagePart(1024, 1024), ImagePart(1024, 1024)>>]

\* A tool message carrying search results (3 tokens once serialized).
SearchNode ==
  [BaseNode EXCEPT !.role = "tool", !.search_result_groups = 3,
                   !.parts = <<StrPart(1)>>]

\* A reasoning recap: an assistant message that would otherwise count.
RecapNode ==
  [BaseNode EXCEPT !.role = "assistant", !.msg_slug = "gpt-4o",
                   !.content_type = "reasoning_recap", !.text = 2,
                   !.partsIsArray = FALSE, !.end_turn = TRUE]

Conversation(t, nodes) ==
  [isObject |-> TRUE, create_time |-> t, hasMapping |-> TRUE,
   mapping |-> nodes, default_model_slug |-> ""]

\* An entry of the array that is not an object (null, a number, a string).
NonObject ==
  [isObject |-> FALSE, create_time |-> NoTime, hasMapping |-> FALSE,
   mapping |-> << >>, default_model_slug |-> ""]

\* Two turns of one-token messages A, B, C, D.
RollingConv ==
  Conversation(TimeA, <<UserNode(1), AssistantNode("gpt-4o", 1, TRUE),
                        UserNode(1), AssistantNode("gpt-4o", 1, TRUE)>>)

\* A conversation without create_time.
NoTimeConv ==
  Conversation(NoTime, <<UserNode(1), AssistantNode("gpt-4o-mini", 2, TRUE)>>)

\* An image generation followed by a closing assistant message.
DalleConv ==
  Conversation(TimeA, <<UserNode(2), DalleNode,
                        AssistantNode("gpt-4o", 1, TRUE)>>)

\* An assistant message of a known model that never ends its turn.
DraftConv ==
  Conversation(TimeB, <<UserNode(1), AssistantNode("gpt-4o", 1, FALSE)>>)

\* A final assistant message without any model slug.
NoSlugConv ==
  Conversation(TimeA, <<UserNode(1), AssistantNode("", 1, TRUE)>>)

\* A model that no pricing table knows, stamped in milliseconds.
StrangerConv ==
  Conversation(TimeMs, <<UserNode(1), AssistantNode("foo-bar", 2, TRUE)>>)

\* Search results, a recap, and an answer that is final by its channel.
SearchConv ==
  Conversation(TimeB,
    <<UserNode(1), SearchNode, RecapNode,
      [AssistantNode("gpt-4o-mini", 2, FALSE) EXCEPT !.channel = "final"]>>)

\* An answer in two assistant messages, the second of which ends the turn.
TwoPartConv ==
  Conversation(TimeB, <<UserNode(1), AssistantNode("gpt-4o", 2, FALSE),
                        AssistantNode("gpt-4o", 1, TRUE)>>)

ConvCatalogue ==
  {RollingConv, NoTimeConv, DalleConv, DraftConv, NoSlugConv, StrangerConv,
   SearchConv, TwoPartConv, NonObject}

\* The input arrays: every sequence of 1 .. MaxConvs catalogue entries.
Inputs ==
  UNION {[1 .. n -> ConvCatalogue] : n \in 1 .. MaxConvs}

\* ------------------------------------------------------------------------
\* State
\* ------------------------------------------------------------------------

\* The orchestrator runs of the model (processConversations calls).
RunIds == {1, 2}

\* dayKey before getDayKey succeeds, and startDate / endDate when undefined.
UnknownDay == -1
NoDate == -2

VARIABLES
  data,         \* the input array handed to processConversations
  MODEL_COSTS,  \* the process-wide pricing table
  run           \* per run: the locals of processConversations and callees

orchVars == <<data, MODEL_COSTS, run>>

\* The aggregator processConversations creates (lines 1125-1131).
EmptyAggregator ==
  [usageByDay |-> << >>, allModelSlugs |-> {},
   startDate |-> NoDate, endDate |-> NoDate, totalCostAllModels |-> 0]

\* A run before its first step.  pc is the position in processConversations;
\* updates is the history of the updateAggregatorUsage calls of the run.
InitRun ==
  [pc |-> "scan", aggregator |-> EmptyAggregator, i |-> 1,
   dayKey |-> UnknownDay, hour |-> 0,
   nodeIdx |-> 1, nodeMessages |-> << >>, modelsUsed |-> {},
   msgIdx |-> 1, rollingContextTokens |-> 0, rollingOutputTokens |-> 0,
   flatModelsUsed |-> {}, updates |-> << >>]

InitOrch ==
  /\ data \in Inputs
  /\ MODEL_COSTS = InitialModelCosts
  /\ run = [r \in RunIds |-> InitRun]

\* ------------------------------------------------------------------------
\* The token counter: state
\* ------------------------------------------------------------------------

\* The requests and the worker contexts one behaviour may create.
MaxRequests == 2
MaxWorkers == 2

\* A text is known by its length in UTF-16 units; 0 is the empty text.
Texts == {0, 4}

\* worker === null
NoWorker == 0

WorkerIds == 1 .. MaxWorkers

\* Where the module runs: a browser; a page whose `new Worker(...)` throws
\* (no Worker constructor, or a policy that refuses the script); or no
\* window at all (server-side rendering).
Environments == {"browser", "window-without-worker", "no-window"}

\* typeof window !== "undefined" (lines 308 and 392).
HasWindow(env) == env # "no-window"

\* Whether the constructor call of lines 317-319 returns a worker.
CanConstructWorker(env) == env = "browser"

VARIABLES
  image,            \* one countImageTokens call: its arguments and result
  environment,      \* fixed for the lifetime of the module
  worker,           \* the handle: NoWorker or the id of a context
  workerReady,
  nextRequestId,
  pendingRequests,  \* the keys of the map id -> resolve
  errorCallbacks,   \* the keys of the map id -> reject
  calls,            \* per request id: the promise and closure of the call
  contexts,         \* per created context: the state of the worker script
  toMain,           \* events on their way to onmessage / onerror
  immediate,        \* history: the calls that returned without a request
  crashes           \* history: how many error events were handled

tokVars ==
  <<image, environment, worker, workerReady, nextRequestId, pendingRequests, errorCallbacks,
    calls, contexts, toMain, immediate, crashes>>

vars == <<data, MODEL_COSTS, run, image, environment, worker, workerReady, nextRequestId,
          pendingRequests, errorCallbacks, calls, contexts, toMain,
          immediate, crashes>>

InitTok ==
  /\ worker = NoWorker
  /\ workerReady = FALSE
  /\ nextRequestId = 0
  /\ pendingRequests = {}
  /\ errorCallbacks = {}
  /\ calls = << >>
  /\ contexts = << >>
  /\ toMain = {}
  /\ immediate = {}
  /\ crashes = 0

\* ------------------------------------------------------------------------
\* Phase A: scanForModelSlugs
\* ------------------------------------------------------------------------

\* The slugs one node adds to foundModels (lines 1210-1223).
NodeFoundModels(node) ==
  (IF node.hasMessage /\ node.msg_slug # "" THEN {node.msg_slug} ELSE {})
  \cup (IF node.node_slug # "" THEN {node.node_slug} ELSE {})
  \cup (IF node.hasMessage /\ node.name = "dalle.text2im"
        THEN {"dalle-3"} ELSE {})
  \cup (IF node.hasMessage /\ node.image_gen_async
        THEN {"gpt-image-1"} ELSE {})

\* foundModels of scanForModelSlugs(d) (lines 1191-1251).
FoundModels(d) ==
  {"dalle-2", "dalle-3", "gpt-image-1"}
  \cup UNION {UNION {NodeFoundModels(d[c].mapping[n]) :
                       n \in DOMAIN d[c].mapping} :
                c \in {x \in DOMAIN d : d[x].isObject /\ d[x].hasMapping}}
  \cup {d[c].default_model_slug :
          c \in {x \in DOMAIN d : d[x].isObject
                                  /\ d[x].default_model_slug # ""}}

\* Placeholders priced like gpt-4o instead of at zero.
WithPlaceholdersPriced(costs, found) ==
  [m \in DOMAIN costs \cup (found \ {UnknownModel}) |->
     IF m \in DOMAIN costs THEN costs[m] ELSE costs["gpt-4o"]]

\* Every found slug gets the placeholder, priced or not.
WithPlaceholdersOverwriting(costs, found) ==
  [m \in DOMAIN costs \cup (found \ {UnknownModel}) |->
     IF m \in found THEN ZeroRate ELSE costs[m]]

\* The pricing table after the placeholders were added (lines 1256-1265).
WithPlaceholders(costs, found) ==
  [m \in DOMAIN costs \cup (found \ {UnknownModel}) |->
     IF m \in DOMAIN costs THEN costs[m] ELSE ZeroRate]

scanForModelSlugs(r) ==
  /\ run[r].pc = "scan"
  /\ MODEL_COSTS' = WithPlaceholders(MODEL_COSTS, FoundModels(data))
  /\ run' = [run EXCEPT ![r].pc = "range"]
  /\ UNCHANGED data
  /\ UNCHANGED tokVars

\* ------------------------------------------------------------------------
\* Phase B: the global date range
\* ------------------------------------------------------------------------

\* a < b for two timestamps, as numbers.
TimeLess(a, b) == a.q < b.q \/ (a.q = b.q /\ a.r < b.r)

\* create_time of the conversations that have a number there.
NumericTimes(d) ==
  {d[c].create_time : c \in {x \in DOMAIN d : d[x].create_time.kind = "number"}}

MinTime(ts) == CHOOSE t \in ts : \A u \in ts : ~TimeLess(u, t)
MaxTime(ts) == CHOOSE t \in ts : \A u \in ts : ~TimeLess(t, u)

\* Lines 1137-1148.
DateRange(r) ==
  /\ run[r].pc = "range"
  /\ LET ts == NumericTimes(data)
     IN run' = [run EXCEPT
          ![r].pc = "conv",
          ![r].aggregator.startDate =
             IF ts = {} THEN NoDate ELSE getDayKey(MinTime(ts)),
          ![r].aggregator.endDate =
             IF ts = {} THEN NoDate ELSE getDayKey(MaxTime(ts))]
  /\ UNCHANGED <<data, MODEL_COSTS>>
  /\ UNCHANGED tokVars

\* ------------------------------------------------------------------------
\* Phase C: one conversation after the other
\* ------------------------------------------------------------------------

\* One entry of the history of updateAggregatorUsage calls.
UpdateRecord(rec, kind, modelSlug, inputTokens, outputTokens) ==
  [conv |-> rec.i, kind |-> kind, dayKey |-> rec.dayKey, hour |-> rec.hour,
   modelSlug |-> modelSlug,
   inputTokens |-> inputTokens, outputTokens |-> outputTokens]

\* The position after the loop over the nodes, and after the flat loop.
AfterNodes(nodeMessages) == IF nodeMessages = << >> THEN "rollup" ELSE "flat"

\* The loop left by `break` instead of `continue` at an invalid entry.
SkipInvalidAndRest(r) ==
  /\ run[r].pc = "conv"
  /\ run[r].i <= Len(data)
  /\ ~data[run[r].i].isObject
  /\ run' = [run EXCEPT ![r].i = Len(data) + 1]
  /\ UNCHANGED <<data, MODEL_COSTS>>
  /\ UNCHANGED tokVars

\* Lines 1152-1156: an entry that is not an object is skipped.
SkipInvalid(r) ==
  /\ run[r].pc = "conv"
  /\ run[r].i <= Len(data)
  /\ ~data[run[r].i].isObject
  /\ run' = [run EXCEPT ![r].i = @ + 1]
  /\ UNCHANGED <<data, MODEL_COSTS>>
  /\ UNCHANGED tokVars

\* The rolling counters kept from one conversation to the next.
BeginConversationKeepsCounters(r) ==
  /\ run[r].pc = "conv"
  /\ run[r].i <= Len(data)
  /\ data[run[r].i].isObject
  /\ \E now \in Clock :
       LET conversation == data[run[r].i]
           conversationTimestamp ==
             IF conversation.create_time.kind = "missing"
             THEN OfSeconds(now) ELSE conversation.create_time
           day == getDayKey(conversationTimestamp)
           usage == run[r].aggregator.usageByDay
       IN run' = [run EXCEPT
            ![r].dayKey = day,
            ![r].hour = getHourOfDay(conversationTimestamp),
            ![r].aggregator.usageByDay =
               IF day # UnknownDay /\ day \notin DOMAIN usage
               THEN Put(usage, day, createDayBucket) ELSE usage,
            ![r].nodeIdx = 1, ![r].nodeMessages = << >>,
            ![r].modelsUsed = {}, ![r].flatModelsUsed = {},
            ![r].msgIdx = 1,
            ![r].pc = IF conversation.hasMapping
                         /\ conversation.mapping # << >>
                      THEN "nodes" ELSE "rollup"]
  /\ UNCHANGED <<data, MODEL_COSTS>>
  /\ UNCHANGED tokVars

\* processConversation up to the call of processMappedMessages
\* (lines 713-737); now is the value of Date.now() / 1000.
BeginConversation(r) ==
  /\ run[r].pc = "conv"
  /\ run[r].i <= Len(data)
  /\ data[run[r].i].isObject
  /\ \E now \in Clock :
       LET conversation == data[run[r].i]
           conversationTimestamp ==
             IF conversation.create_time.kind = "missing"
             THEN OfSeconds(now) ELSE conversation.create_time
           day == getDayKey(conversationTimestamp)
           usage == run[r].aggregator.usageByDay
       IN run' = [run EXCEPT
            ![r].dayKey = day,
            ![r].hour = getHourOfDay(conversationTimestamp),
            ![r].aggregator.usageByDay =
               IF day # UnknownDay /\ day \notin DOMAIN usage
               THEN Put(usage, day, createDayBucket) ELSE usage,
            ![r].nodeIdx = 1, ![r].nodeMessages = << >>,
            ![r].modelsUsed = {}, ![r].flatModelsUsed = {},
            ![r].msgIdx = 1,
            ![r].rollingContextTokens = 0, ![r].rollingOutputTokens = 0,
            ![r].pc = IF conversation.hasMapping
                         /\ conversation.mapping # << >>
                      THEN "nodes" ELSE "rollup"]
  /\ UNCHANGED <<data, MODEL_COSTS>>
  /\ UNCHANGED tokVars

\* The image-generation updates of a node (lines 941-989) applied to the
\* locals rec of a run: up to two updateAggregatorUsage calls.
WithImageUpdates(rec, costs, node) ==
  LET isTool == node.hasMessage /\ node.role = "tool"
      numDalle == IF isTool THEN NumDalleImages(node) ELSE 0
      numAsync == IF isTool THEN NumAsyncImages(node) ELSE 0
      usage1 == IF numDalle > 0
                THEN updateAggregatorUsage(rec.aggregator.usageByDay,
                       costs, rec.dayKey, rec.hour, "dalle-3", 0, numDalle)
                ELSE rec.aggregator.usageByDay
      usage2 == IF numAsync > 0
                THEN updateAggregatorUsage(usage1,
                       costs, rec.dayKey, rec.hour, "gpt-image-1", 0, numAsync)
                ELSE usage1
      log1 == IF numDalle > 0
              THEN Append(rec.updates,
                     UpdateRecord(rec, "image", "dalle-3", 0, numDalle))
              ELSE rec.updates
      log2 == IF numAsync > 0
              THEN Append(log1,
                     UpdateRecord(rec, "image", "gpt-image-1", 0, numAsync))
              ELSE log1
  IN [rec EXCEPT
        !.aggregator.usageByDay = usage2,
        !.updates = log2,
        !.modelsUsed =
           @ \cup (IF numDalle > 0 THEN {"dalle-3"} ELSE {})
             \cup (IF numAsync > 0 THEN {"gpt-image-1"} ELSE {})]

\* The entry of a node when the countTextTokens calls inside the two try
\* blocks (lines 918-928 and 1038-1043) reject: the catch leaves searchTokens
\* at 0, or adds nothing for the citations; the slug override of line 1045
\* is outside the try.
FlatEntryCaught(node, searchFails, citationsFail) ==
  LET counted == [node EXCEPT
                    !.search_result_groups = IF searchFails THEN 0 ELSE @,
                    !.citations = IF citationsFail THEN 0 ELSE @]
  IN [FlatEntry(counted) EXCEPT !.model_slug = EntrySlug(node)]

\* The node awaits countTextTokens for a non-empty text outside any try
\* before its image updates (lines 885, 901, 908, 935).
AwaitsBeforeImages(node) ==
  LET parts == PartsOf(node)
      strings == \E i \in DOMAIN parts :
                   parts[i].kind = "str" /\ parts[i].tok > 0
  IN \/ /\ node.role \in {"user", "system"}
        /\ \/ strings
           \/ ~node.partsIsArray /\ node.text > 0
           \/ node.about_model_message > 0
     \/ node.role = "tool" /\ strings

\* The node awaits countTextTokens for a non-empty text outside any try
\* after its image updates (lines 1001-1030 and 1054-1073).
AwaitsAfterImages(node) ==
  LET parts == PartsOf(node)
  IN /\ node.role \in {"assistant", "tool"}
     /\ \/ node.content_type = "thoughts" /\ node.thoughts > 0
        \/ node.content_type = "tether_browsing_display" /\ node.result > 0
        \/ \E i \in DOMAIN parts : parts[i].kind = "str" /\ parts[i].tok > 0
        \/ node.text > 0

\* One iteration of the loop of processMappedMessages (lines 859-1093):
\* the image-generation updates of the node and its flat entry.  A
\* rejection of countTextTokens inside one of the two try blocks is caught.
ProcessNode(r) ==
  /\ run[r].pc = "nodes"
  /\ \E searchFails, citationsFail \in BOOLEAN :
       LET rec == run[r]
           mapping == data[rec.i].mapping
           node == mapping[rec.nodeIdx]
           messages == IF node.hasMessage
                       THEN Append(rec.nodeMessages,
                              FlatEntryCaught(node, searchFails,
                                              citationsFail))
                       ELSE rec.nodeMessages
       IN /\ searchFails =>
               /\ node.hasMessage /\ node.role = "tool"
               /\ node.search_result_groups > 0
          /\ citationsFail =>
               /\ node.hasMessage /\ node.role \in {"assistant", "tool"}
               /\ node.citations > 0
          /\ run' = [run EXCEPT ![r] =
               [WithImageUpdates(rec, MODEL_COSTS, node) EXCEPT
                  !.nodeMessages = messages,
                  !.nodeIdx = @ + 1,
                  !.pc = IF rec.nodeIdx < Len(mapping) THEN "nodes"
                         ELSE AfterNodes(messages)]]
  /\ UNCHANGED <<data, MODEL_COSTS>>
  /\ UNCHANGED tokVars

\* A countTextTokens call awaited outside any try rejects (the worker
\* crashed while the request was pending, lines 368-378): the exception
\* leaves processMappedMessages, processConversation (no catch around line
\* 738) and processConversations (no catch around line 1157), whose promise
\* rejects.  The image updates of the node are done when the call is one
\* of the assistant/tool section.
ProcessNodeRejected(r) ==
  /\ run[r].pc = "nodes"
  /\ \E afterImages \in BOOLEAN :
       LET rec == run[r]
           node == data[rec.i].mapping[rec.nodeIdx]
       IN /\ node.hasMessage
          /\ IF afterImages THEN AwaitsAfterImages(node)
                            ELSE AwaitsBeforeImages(node)
          /\ run' = [run EXCEPT ![r] =
               [(IF afterImages
                 THEN WithImageUpdates(rec, MODEL_COSTS, node)
                 ELSE rec) EXCEPT !.pc = "rejected"]]
  /\ UNCHANGED <<data, MODEL_COSTS>>
  /\ UNCHANGED tokVars

\* modelsUsed when no message adds its slug.
ModelsUsedWithNothing(modelsUsed, msg) == modelsUsed

\* modelsUsed after the entry msg (lines 811-815): the slug of an assistant
\* entry is added unless it is the placeholder "unknown_model".
ModelsUsedWith(modelsUsed, msg) ==
  IF msg.role = "assistant" /\ msg.model_slug # UnknownModel
  THEN modelsUsed \cup {msg.model_slug} ELSE modelsUsed

\* The flat loop without the reset of line 829.
AccumulateEntryKeepsOutput(r) ==
  /\ run[r].pc = "flat"
  /\ LET rec == run[r]
         msg == rec.nodeMessages[rec.msgIdx]
         withSearch == rec.rollingContextTokens
                       + (IF msg.searchTokens > 0 THEN msg.searchTokens ELSE 0)
         isContext == msg.role \in {"user", "system", "tool"}
         isAssistant == msg.role = "assistant"
         context == IF isContext THEN withSearch + msg.contentTokens
                    ELSE IF isAssistant
                    THEN withSearch + msg.contentTokens + msg.outputTokens
                    ELSE withSearch
         output == IF isAssistant
                   THEN rec.rollingOutputTokens + msg.outputTokens
                   ELSE rec.rollingOutputTokens
         commit == isAssistant /\ msg.isFinalMessage
         next == IF rec.msgIdx < Len(rec.nodeMessages) THEN "flat"
                 ELSE "rollup"
     IN IF msg.isReasoningRecap
        THEN run' = [run EXCEPT ![r].msgIdx = @ + 1, ![r].pc = next]
        ELSE run' = [run EXCEPT
               ![r].rollingContextTokens = context,
               ![r].rollingOutputTokens = output,
               ![r].flatModelsUsed = ModelsUsedWith(@, msg),
               ![r].aggregator.usageByDay =
                  IF commit
                  THEN updateAggregatorUsage(@, MODEL_COSTS, rec.dayKey,
                         rec.hour, msg.model_slug, context, output)
                  ELSE @,
               ![r].updates =
                  IF commit
                  THEN Append(@, UpdateRecord(rec, "turn", msg.model_slug,
                                              context, output))
                  ELSE @,
               ![r].msgIdx = @ + 1,
               ![r].pc = next]
  /\ UNCHANGED <<data, MODEL_COSTS>>
  /\ UNCHANGED tokVars

\* The flat loop without the test of lines 797-799.
AccumulateEntryCountsRecap(r) ==
  /\ run[r].pc = "flat"
  /\ LET rec == run[r]
         msg == rec.nodeMessages[rec.msgIdx]
         withSearch == rec.rollingContextTokens
                       + (IF msg.searchTokens > 0 THEN msg.searchTokens ELSE 0)
         isContext == msg.role \in {"user", "system", "tool"}
         isAssistant == msg.role = "assistant"
         context == IF isContext THEN withSearch + msg.contentTokens
                    ELSE IF isAssistant
                    THEN withSearch + msg.contentTokens + msg.outputTokens
                    ELSE withSearch
         output == IF isAssistant
                   THEN rec.rollingOutputTokens + msg.outputTokens
                   ELSE rec.rollingOutputTokens
         commit == isAssistant /\ msg.isFinalMessage
         next == IF rec.msgIdx < Len(rec.nodeMessages) THEN "flat"
                 ELSE "rollup"
     IN IF FALSE
        THEN run' = [run EXCEPT ![r].msgIdx = @ + 1, ![r].pc = next]
        ELSE run' = [run EXCEPT
               ![r].rollingContextTokens = context,
               ![r].rollingOutputTokens = IF commit THEN 0 ELSE output,
               ![r].flatModelsUsed = ModelsUsedWith(@, msg),
               ![r].aggregator.usageByDay =
                  IF commit
                  THEN updateAggregatorUsage(@, MODEL_COSTS, rec.dayKey,
                         rec.hour, msg.model_slug, context, output)
                  ELSE @,
               ![r].updates =
                  IF commit
                  THEN Append(@, UpdateRecord(rec, "turn", msg.model_slug,
                                              context, output))
                  ELSE @,
               ![r].msgIdx = @ + 1,
               ![r].pc = next]
  /\ UNCHANGED <<data, MODEL_COSTS>>
  /\ UNCHANGED tokVars

\* One iteration of the loop of processFlatMessagesWithTokenCounts
\* (lines 790-833).
AccumulateEntry(r) ==
  /\ run[r].pc = "flat"
  /\ LET rec == run[r]
         msg == rec.nodeMessages[rec.msgIdx]
         withSearch == rec.rollingContextTokens
                       + (IF msg.searchTokens > 0 THEN msg.searchTokens ELSE 0)
         isContext == msg.role \in {"user", "system", "tool"}
         isAssistant == msg.role = "assistant"
         context == IF isContext THEN withSearch + msg.contentTokens
                    ELSE IF isAssistant
                    THEN withSearch + msg.contentTokens + msg.outputTokens
                    ELSE withSearch
         output == IF isAssistant
                   THEN rec.rollingOutputTokens + msg.outputTokens
                   ELSE rec.rollingOutputTokens
         commit == isAssistant /\ msg.isFinalMessage
         next == IF rec.msgIdx < Len(rec.nodeMessages) THEN "flat"
                 ELSE "rollup"
     IN IF msg.isReasoningRecap
        THEN run' = [run EXCEPT ![r].msgIdx = @ + 1, ![r].pc = next]
        ELSE run' = [run EXCEPT
               ![r].rollingContextTokens = context,
               ![r].rollingOutputTokens = IF commit THEN 0 ELSE output,
               ![r].flatModelsUsed = ModelsUsedWith(@, msg),
               ![r].aggregator.usageByDay =
                  IF commit
                  THEN updateAggregatorUsage(@, MODEL_COSTS, rec.dayKey,
                         rec.hour, msg.model_slug, context, output)
                  ELSE @,
               ![r].updates =
                  IF commit
                  THEN Append(@, UpdateRecord(rec, "turn", msg.model_slug,
                                              context, output))
                  ELSE @,
               ![r].msgIdx = @ + 1,
               ![r].pc = next]
  /\ UNCHANGED <<data, MODEL_COSTS>>
  /\ UNCHANGED tokVars

\* dayBucket after the rollup of lines 756-764 for the models used.
RollupDay(dayBucket, models) ==
  [total |-> [dayBucket.total EXCEPT !.conversation_count = @ + 1],
   models |->
     [m \in DOMAIN dayBucket.models \cup models |->
        LET b == IF m \in DOMAIN dayBucket.models
                 THEN dayBucket.models[m] ELSE createBucketWithHours
        IN IF m \in models
           THEN [b EXCEPT !.conversation_count = @ + 1] ELSE b]]

\* The end of processConversation (lines 753-767) and the union into
\* allModelSlugs by processConversations (lines 1161-1163).
Rollup(r) ==
  /\ run[r].pc = "rollup"
  /\ LET rec == run[r]
         modelsUsedInConversation == rec.modelsUsed \cup rec.flatModelsUsed
         usage == rec.aggregator.usageByDay
     IN run' = [run EXCEPT
          ![r].aggregator.usageByDay =
             IF rec.dayKey # UnknownDay /\ modelsUsedInConversation # {}
             THEN [usage EXCEPT ![rec.dayKey] =
                     RollupDay(@, modelsUsedInConversation)]
             ELSE usage,
          ![r].aggregator.allModelSlugs = @ \cup modelsUsedInConversation,
          ![r].i = @ + 1,
          ![r].pc = "conv"]
  /\ UNCHANGED <<data, MODEL_COSTS>>
  /\ UNCHANGED tokVars

\* ------------------------------------------------------------------------
\* Phase D: the total cost
\* ------------------------------------------------------------------------

RECURSIVE SumOver(_, _)
\* The sum of f[k] over the keys k of the set keys.
SumOver(f, keys) ==
  IF keys = {} THEN 0
  ELSE LET k == CHOOSE x \in keys : TRUE
       IN f[k] + SumOver(f, keys \ {k})

\* totalCost when the loop assigns instead of adding: the cost of one day.
totalCostOfLastDay(usage) ==
  IF DOMAIN usage = {} THEN 0
  ELSE usage[CHOOSE d \in DOMAIN usage :
               \A e \in DOMAIN usage : e <= d].total.cost

\* totalCost after the loop over the days (lines 1167-1170).
totalCost(usage) ==
  SumOver([d \in DOMAIN usage |-> usage[d].total.cost], DOMAIN usage)

\* Lines 1167-1174.
Finalize(r) ==
  /\ run[r].pc = "conv"
  /\ run[r].i > Len(data)
  /\ run' = [run EXCEPT
       ![r].aggregator.totalCostAllModels =
          totalCost(run[r].aggregator.usageByDay),
       ![r].pc = "done"]
  /\ UNCHANGED <<data, MODEL_COSTS>>
  /\ UNCHANGED tokVars

\* One step of processConversations call r.
Step(r) ==
  \/ scanForModelSlugs(r)
  \/ DateRange(r)
  \/ SkipInvalid(r)
  \/ BeginConversation(r)
  \/ ProcessNode(r)
  \/ ProcessNodeRejected(r)
  \/ AccumulateEntry(r)
  \/ Rollup(r)
  \/ Finalize(r)

\* ------------------------------------------------------------------------
\* The worker script (tokenizer.worker.ts)
\* ------------------------------------------------------------------------

\* enc.encode(cleanedText).length: the encoder is a fixed function of the
\* text; here two UTF-16 units make a token.
EncodedLength(text) == (text + 1) \div 2

\* Math.ceil(text.length / 4)
FallbackCount(text) == CeilDiv(text, 4)

ReadySignal(w) ==
  [from |-> w, type |-> "WORKER_READY", id |-> -1, hasCount |-> FALSE,
   count |-> 0, error |-> FALSE, fallbackUsed |-> FALSE]

\* event.data with id undefined, and with a text that is not a string.
UndefinedId == -1
NotAString == -1

\* The test of line 34 passes.
IsWellFormed(request) ==
  request.id # UndefinedId /\ request.text # NotAString

\* A worker that answers {id, error} when it has no encoder.
WorkerResponseErrorOnly(w, enc, id, text, encoderThrows) ==
  IF ~enc \/ (text # 0 /\ encoderThrows)
  THEN [from |-> w, type |-> "", id |-> id, hasCount |-> FALSE,
        count |-> 0, error |-> TRUE, fallbackUsed |-> FALSE]
  ELSE [from |-> w, type |-> "", id |-> id, hasCount |-> TRUE,
        count |-> IF text = 0 THEN 0 ELSE EncodedLength(text),
        error |-> FALSE, fallbackUsed |-> FALSE]

\* The message self.onmessage posts for the request {id, text}
\* (lines 39-77); encoderThrows tells whether enc.encode raised.
WorkerResponse(w, enc, id, text, encoderThrows) ==
  IF ~enc \/ (text # 0 /\ encoderThrows)
  THEN [from |-> w, type |-> "", id |-> id, hasCount |-> TRUE,
        count |-> FallbackCount(text), error |-> TRUE, fallbackUsed |-> TRUE]
  ELSE [from |-> w, type |-> "", id |-> id, hasCount |-> TRUE,
        count |-> IF text = 0 THEN 0 ELSE EncodedLength(text),
        error |-> FALSE, fallbackUsed |-> FALSE]

\* A context as new Worker(...) leaves it: the script has not run yet.
NewContext ==
  [started |-> FALSE, enc |-> FALSE, terminated |-> FALSE,
   crashed |-> FALSE, inbox |-> << >>]

\* The script runs to its end: the encoder is built or not (lines 11-28)
\* and the ready signal is posted (line 82).
WorkerStart(w) ==
  /\ w \in DOMAIN contexts
  /\ ~contexts[w].started
  /\ ~contexts[w].terminated
  /\ \E encoderOk \in BOOLEAN :
       contexts' = [contexts EXCEPT ![w].started = TRUE, ![w].enc = encoderOk]
  /\ toMain' = toMain \cup {ReadySignal(w)}
  /\ UNCHANGED <<worker, workerReady, nextRequestId, pendingRequests,
                 errorCallbacks, calls, immediate, crashes>>
  /\ UNCHANGED <<image, environment, orchVars>>

\* self.onmessage for the oldest request of the inbox (lines 30-78).
WorkerOnMessage(w) ==
  /\ w \in DOMAIN contexts
  /\ contexts[w].started
  /\ ~contexts[w].terminated
  /\ contexts[w].inbox # << >>
  /\ LET request == Head(contexts[w].inbox)
     IN IF IsWellFormed(request)
        THEN \E encoderThrows \in BOOLEAN :
               toMain' = toMain \cup
                 {WorkerResponse(w, contexts[w].enc, request.id, request.text,
                                 encoderThrows)}
        ELSE toMain' = toMain
  /\ contexts' = [contexts EXCEPT ![w].inbox = Tail(@)]
  /\ UNCHANGED <<worker, workerReady, nextRequestId, pendingRequests,
                 errorCallbacks, calls, immediate, crashes>>
  /\ UNCHANGED <<image, environment, orchVars>>

\* The messages a page may post to the context, well formed or not.
MaxInbox == 2
WorkerRequests == [id : {7, UndefinedId}, text : {0, 4, NotAString}]

\* Some code of the page posts event.data = request to context w.
PostMessageToWorker(w, request) ==
  /\ w \in DOMAIN contexts
  /\ ~contexts[w].terminated
  /\ Len(contexts[w].inbox) < MaxInbox
  /\ contexts' = [contexts EXCEPT ![w].inbox = Append(@, request)]
  /\ UNCHANGED <<worker, workerReady, nextRequestId, pendingRequests,
                 errorCallbacks, calls, toMain, immediate, crashes>>
  /\ UNCHANGED <<image, environment, orchVars>>

\* An uncaught error in the context: the error event is on its way.
WorkerFails(w) ==
  /\ w \in DOMAIN contexts
  /\ ~contexts[w].crashed
  /\ ~contexts[w].terminated
  /\ contexts' = [contexts EXCEPT ![w].crashed = TRUE]
  /\ toMain' = toMain \cup
       {[from |-> w, type |-> "error", id |-> -1, hasCount |-> FALSE,
         count |-> 0, error |-> TRUE, fallbackUsed |-> FALSE]}
  /\ UNCHANGED <<worker, workerReady, nextRequestId, pendingRequests,
                 errorCallbacks, calls, immediate, crashes>>
  /\ UNCHANGED <<image, environment, orchVars>>

\* ------------------------------------------------------------------------
\* The image estimator as an operation
\* ------------------------------------------------------------------------

\* The largest side of an image, in tiles of 512 pixels.
MaxSideTiles == 9

\* The sides tried: around every multiple of 512, and a few in between.
ImageSides ==
  {x \in {512 * k + e : k \in 0 .. MaxSideTiles, e \in {-1, 0, 1}} : x > 0}
  \cup {100, 186, 1026, 3000}

\* tokens before the promise resolves.
NotCounted == -1

\* No call of countImageTokens in progress.
NoImage == [width |-> 0, height |-> 0, detail |-> "", tokens |-> NotCounted]

ImageCalls ==
  [width : ImageSides, height : ImageSides, detail : {"low", "high"},
   tokens : {NotCounted}]

\* countImageTokens(width, height, detail) resolves.
CountImage ==
  /\ image.width > 0
  /\ image.tokens = NotCounted
  /\ image' = [image EXCEPT
       !.tokens = countImageTokens(image.width, image.height, image.detail)]
  /\ UNCHANGED <<environment, worker, workerReady, nextRequestId,
                 pendingRequests, errorCallbacks, calls, contexts, toMain,
                 immediate, crashes>>
  /\ UNCHANGED orchVars

\* ------------------------------------------------------------------------
\* The token counter: the caller side (calculator.ts)
\* ------------------------------------------------------------------------

\* initTokenizerWorker without the test of line 312: a context per call.
initTokenizerWorkerPerCall(current, created) == Cardinality(created) + 1

\* The handle initTokenizerWorker returns: the live one, or a new context
\* (lines 312-380).
initTokenizerWorker(current, created) ==
  IF current = NoWorker THEN Cardinality(created) + 1 ELSE current

\* The promise of a call after resolve(value) / reject(...): settling a
\* settled promise changes nothing.
Resolved(call, value) ==
  IF call.status = "pending"
  THEN [call EXCEPT !.status = "resolved", !.value = value] ELSE call

Rejected(call) ==
  IF call.status = "pending" THEN [call EXCEPT !.status = "rejected"] ELSE call

\* Whether attemptPostMessage posts the request now (line 409); the
\* captured handle is never null, so it retries otherwise (line 430).
CanPost(ready, tokenizerWorker) == ready /\ tokenizerWorker # NoWorker

\* countTextTokens(text) for the empty text (line 391).
CountEmpty ==
  /\ immediate' = immediate
                   \cup {[text |-> 0, status |-> "resolved", value |-> 0]}
  /\ immediate' # immediate
  /\ UNCHANGED <<worker, workerReady, nextRequestId, pendingRequests,
                 errorCallbacks, calls, contexts, toMain, crashes>>
  /\ UNCHANGED <<image, environment, orchVars>>

\* countTextTokens(text) for a text that is not empty, up to the return of
\* the promise (lines 400-435): the first attemptPostMessage included.
CountTextTokens(text) ==
  /\ text # 0
  /\ HasWindow(environment)
  /\ worker # NoWorker \/ CanConstructWorker(environment)
  /\ nextRequestId < MaxRequests
  /\ LET tokenizerWorker == initTokenizerWorker(worker, DOMAIN contexts)
         requestId == nextRequestId
         created == IF tokenizerWorker \in DOMAIN contexts THEN contexts
                    ELSE Put(contexts, tokenizerWorker, NewContext)
         post == CanPost(workerReady, tokenizerWorker)
     IN /\ tokenizerWorker \in WorkerIds
        /\ worker' = tokenizerWorker
        /\ nextRequestId' = nextRequestId + 1
        /\ pendingRequests' = pendingRequests \cup {requestId}
        /\ errorCallbacks' = errorCallbacks \cup {requestId}
        /\ contexts' =
             IF post
             THEN [created EXCEPT ![tokenizerWorker].inbox =
                     Append(@, [id |-> requestId, text |-> text])]
             ELSE created
        /\ calls' = Put(calls, requestId,
             [text |-> text, tokenizerWorker |-> tokenizerWorker,
              status |-> "pending", value |-> 0,
              timer |-> ~post, posted |-> IF post THEN 1 ELSE 0,
              readyAtPost |-> post /\ created[tokenizerWorker].started])
  /\ UNCHANGED <<workerReady, toMain, immediate, crashes>>
  /\ UNCHANGED <<image, environment, orchVars>>

\* countTextTokens(text) without a window (lines 392-398): the estimate
\* is returned before initTokenizerWorker and before any request id.
CountWithoutWindow(text) ==
  /\ text # 0
  /\ ~HasWindow(environment)
  /\ immediate' = immediate
                   \cup {[text |-> text, status |-> "resolved",
                          value |-> CeilDiv(text, 4)]}
  /\ immediate' # immediate
  /\ UNCHANGED <<worker, workerReady, nextRequestId, pendingRequests,
                 errorCallbacks, calls, contexts, toMain, crashes>>
  /\ UNCHANGED <<image, environment, orchVars>>

\* countTextTokens(text) in a window where the constructor call of line 317
\* throws: the exception leaves initTokenizerWorker (line 400) with worker
\* still null, before line 401, and the promise of the async function
\* rejects.
CountConstructionFails(text) ==
  /\ text # 0
  /\ HasWindow(environment)
  /\ worker = NoWorker
  /\ ~CanConstructWorker(environment)
  /\ immediate' = immediate
                   \cup {[text |-> text, status |-> "rejected", value |-> 0]}
  /\ immediate' # immediate
  /\ UNCHANGED <<worker, workerReady, nextRequestId, pendingRequests,
                 errorCallbacks, calls, contexts, toMain, crashes>>
  /\ UNCHANGED <<image, environment, orchVars>>

\* The timer of line 430 fires: attemptPostMessage runs again.
RetryPostMessage(id) ==
  /\ id \in DOMAIN calls
  /\ calls[id].timer
  /\ CanPost(workerReady, calls[id].tokenizerWorker)
  /\ contexts' = [contexts EXCEPT ![calls[id].tokenizerWorker].inbox =
                    Append(@, [id |-> id, text |-> calls[id].text])]
  /\ calls' = [calls EXCEPT
       ![id].timer = FALSE,
       ![id].posted = @ + 1,
       ![id].readyAtPost = contexts[calls[id].tokenizerWorker].started]
  /\ UNCHANGED <<worker, workerReady, nextRequestId, pendingRequests,
                 errorCallbacks, toMain, immediate, crashes>>
  /\ UNCHANGED <<image, environment, orchVars>>

\* Matching by arrival order: the oldest registered call, whatever the id.
MatchOldestRequest(id, pending, errors) ==
  IF pending \cap errors = {} THEN {}
  ELSE {CHOOSE c \in pending \cap errors :
          \A o \in pending \cap errors : c <= o}

\* The call a response settles: the one whose id the response carries,
\* when both of its callbacks are registered (lines 339-342).
MatchRequest(id, pending, errors) ==
  IF id \in pending /\ id \in errors THEN {id} ELSE {}

\* Every response with an error rejects, fallback or not.
ResolvesOnlyWithoutError(m) == ~m.error /\ m.hasCount

\* Whether resolve(count) is what lines 343-359 call for the response.
ResolvesWithCount(m) ==
  IF m.error THEN m.fallbackUsed /\ m.hasCount ELSE m.hasCount

\* worker.onmessage (lines 321-366) for an event of a live context.
OnMessage(m) ==
  /\ m \in toMain
  /\ m.type # "error"
  /\ toMain' = toMain \ {m}
  /\ IF m.type = "WORKER_READY"
     THEN /\ workerReady' = TRUE
          /\ UNCHANGED <<pendingRequests, errorCallbacks, calls>>
     ELSE LET matched == MatchRequest(m.id, pendingRequests, errorCallbacks)
          IN /\ calls' = [c \in DOMAIN calls |->
                  IF c \in matched
                  THEN IF ResolvesWithCount(m)
                       THEN Resolved(calls[c], m.count)
                       ELSE Rejected(calls[c])
                  ELSE calls[c]]
             /\ pendingRequests' = pendingRequests \ matched
             /\ errorCallbacks' = errorCallbacks \ matched
             /\ UNCHANGED workerReady
  /\ UNCHANGED <<worker, nextRequestId, contexts, immediate, crashes>>
  /\ UNCHANGED <<image, environment, orchVars>>

\* The maps are cleared and nobody is told.
RejectedOnErrorNone(errors) == {}

\* The calls worker.onerror rejects (lines 372-374).
RejectedOnError(errors) == errors

\* worker.onerror (lines 368-378).
OnError(m) ==
  /\ m \in toMain
  /\ m.type = "error"
  /\ toMain' = toMain \ {m}
  /\ workerReady' = FALSE
  /\ calls' = [c \in DOMAIN calls |->
       IF c \in RejectedOnError(errorCallbacks)
       THEN Rejected(calls[c]) ELSE calls[c]]
  /\ pendingRequests' = {}
  /\ errorCallbacks' = {}
  /\ worker' = NoWorker
  /\ crashes' = crashes + 1
  /\ UNCHANGED <<nextRequestId, contexts, immediate>>
  /\ UNCHANGED <<image, environment, orchVars>>

\* The calls terminateTokenizerWorker rejects: none (lines 443-450).
RejectedOnTerminate(errors) == {}

\* A teardown that also starts the request ids over.
terminateTokenizerWorkerResetsIds ==
  /\ worker # NoWorker
  /\ contexts' = [contexts EXCEPT ![worker].terminated = TRUE]
  /\ toMain' = {m \in toMain : m.from # worker}
  /\ calls' = [c \in DOMAIN calls |->
       IF c \in RejectedOnTerminate(errorCallbacks)
       THEN Rejected(calls[c]) ELSE calls[c]]
  /\ worker' = NoWorker
  /\ workerReady' = FALSE
  /\ pendingRequests' = {}
  /\ errorCallbacks' = {}
  /\ nextRequestId' = 0
  /\ UNCHANGED <<immediate, crashes>>
  /\ UNCHANGED <<image, environment, orchVars>>

\* terminateTokenizerWorker (lines 442-451); worker.terminate() stops the
\* script and discards the events of the context still on their way.
terminateTokenizerWorker ==
  /\ worker # NoWorker
  /\ contexts' = [contexts EXCEPT ![worker].terminated = TRUE]
  /\ toMain' = {m \in toMain : m.from # worker}
  /\ calls' = [c \in DOMAIN calls |->
       IF c \in RejectedOnTerminate(errorCallbacks)
       THEN Rejected(calls[c]) ELSE calls[c]]
  /\ worker' = NoWorker
  /\ workerReady' = FALSE
  /\ pendingRequests' = {}
  /\ errorCallbacks' = {}
  /\ UNCHANGED <<nextRequestId, immediate, crashes>>
  /\ UNCHANGED <<image, environment, orchVars>>

\* One step of the token counter or of one of its contexts.
TokStep ==
  \/ CountEmpty
  \/ \E text \in Texts : CountTextTokens(text)
  \/ \E text \in Texts : CountWithoutWindow(text)
  \/ \E text \in Texts : CountConstructionFails(text)
  \/ \E id \in DOMAIN calls : RetryPostMessage(id)
  \/ \E m \in toMain : OnMessage(m)
  \/ \E m \in toMain : OnError(m)
  \/ terminateTokenizerWorker
  \/ \E w \in WorkerIds : WorkerStart(w)
  \/ \E w \in WorkerIds : WorkerOnMessage(w)
  \/ \E w \in WorkerIds : WorkerFails(w)

\* ------------------------------------------------------------------------
\* Specifications
\* ------------------------------------------------------------------------

\* One orchestrator run, the token counter left alone.
Init ==
  /\ InitOrch
  /\ InitTok
  /\ environment = "browser"
  /\ image = NoImage

Next == Step(1)

Spec == Init /\ [][Next]_vars

\* The token counter under arbitrary callers in each environment, no run
\* in progress.
InitCounter ==
  /\ data = << >>
  /\ MODEL_COSTS = InitialModelCosts
  /\ run = [r \in RunIds |-> InitRun]
  /\ InitTok
  /\ environment \in Environments
  /\ image = NoImage

NextCounter == TokStep

SpecCounter == InitCounter /\ [][NextCounter]_vars

\* What the event loop and the contexts do without being asked: a timer
\* that is due fires, a message or an error event on its way is delivered,
\* a script that can run runs. Callers, teardowns and crashes owe nothing.
FairCounter ==
  /\ \A id \in 0 .. MaxRequests - 1 : WF_vars(RetryPostMessage(id))
  /\ WF_vars(\E m \in toMain : OnMessage(m))
  /\ WF_vars(\E m \in toMain : OnError(m))
  /\ WF_vars(\E w \in WorkerIds : WorkerStart(w))
  /\ WF_vars(\E w \in WorkerIds : WorkerOnMessage(w))

SpecCounterFair == InitCounter /\ [][NextCounter]_vars /\ FairCounter

\* Two orchestrator runs on the same input, stepped in any interleaving.
NextRuns == \E r \in RunIds : Step(r)

SpecRuns == Init /\ [][NextRuns]_vars

\* The image estimator on its own: one call for each choice of arguments.
InitImage ==
  /\ data = << >>
  /\ MODEL_COSTS = InitialModelCosts
  /\ run = [r \in RunIds |-> InitRun]
  /\ InitTok
  /\ environment = "browser"
  /\ image \in ImageCalls

NextImage == CountImage

SpecImage == InitImage /\ [][NextImage]_vars

\* The worker script on its own, under any messages; nothing reads toMain,
\* which keeps every message the script posted.
InitWorker ==
  /\ data = << >>
  /\ MODEL_COSTS = InitialModelCosts
  /\ run = [r \in RunIds |-> InitRun]
  /\ environment = "browser"
  /\ image = NoImage
  /\ worker = 1
  /\ contexts = (1 :> NewContext)
  /\ workerReady = FALSE
  /\ nextRequestId = 0
  /\ pendingRequests = {}
  /\ errorCallbacks = {}
  /\ calls = << >>
  /\ toMain = {}
  /\ immediate = {}
  /\ crashes = 0

NextWorker ==
  \/ WorkerStart(1)
  \/ WorkerOnMessage(1)
  \/ \E request \in WorkerRequests : PostMessageToWorker(1, request)

SpecWorker == InitWorker /\ [][NextWorker]_vars

\* One orchestrator run, and the pre-scan of a second processConversations
\* call on the same input at any moment of the first.
NextRescan == Step(1) \/ scanForModelSlugs(2)

SpecRescan == Init /\ [][NextRescan]_vars

\* ------------------------------------------------------------------------
\* Properties of the aggregator
\* ------------------------------------------------------------------------

\* The sum of field f over the 24 hour buckets of b.
HourSum(b, f) == SumOver([h \in Hours |-> b.hours[h][f]], Hours)

\* Every BucketWithHours of a day: its total and its model buckets.
BucketsOfDay(day) == {day.total} \cup {day.models[m] : m \in DOMAIN day.models}

UsageOf(r) == run[r].aggregator.usageByDay

\* C1: in every state, for every BucketWithHours of every day and for each
\* of the five counter fields, the 24 hour buckets sum to the bucket's own
\* total.
C1_HourBucketsSumToTotals ==
  \A r \in RunIds : \A d \in DOMAIN UsageOf(r) :
    \A b \in BucketsOfDay(UsageOf(r)[d]) : \A f \in CounterFields :
      HourSum(b, f) = b[f]

\* The sum of field f over the model buckets of a day.
ModelSum(day, f) ==
  SumOver([m \in DOMAIN day.models |-> day.models[m][f]], DOMAIN day.models)

ContributorsTo(r, d) ==
  {run[r].updates[k].conv :
     k \in {x \in DOMAIN run[r].updates : run[r].updates[x].dayKey = d}}

\* C3: after a run, conversation_count of every day total is the number of
\* distinct conversations with at least one usage update on that day.
C3_ConversationCountIsContributors ==
  \A r \in RunIds :
    run[r].pc = "done" =>
      \A d \in DOMAIN UsageOf(r) :
        UsageOf(r)[d].total.conversation_count
          = Cardinality(ContributorsTo(r, d))

\* The flat entries of a conversation, in the order of its mapping.
EntriesOf(conversation) ==
  [n \in DOMAIN conversation.mapping |-> FlatEntry(conversation.mapping[n])]

\* All the tokens of an entry, whichever counter they were put in.
EntryTokens(e) == e.contentTokens + e.outputTokens

\* A conversation made of turns [user entry, final assistant entry], with
\* no search tokens.
IsTurnConversation(conversation) ==
  LET es == EntriesOf(conversation)
  IN /\ conversation.isObject /\ conversation.hasMapping
     /\ Len(es) > 0 /\ Len(es) % 2 = 0
     /\ \A n \in DOMAIN es :
          /\ conversation.mapping[n].hasMessage
          /\ es[n].searchTokens = 0
          /\ ~es[n].isReasoningRecap
          /\ es[n].role = IF n % 2 = 1 THEN "user" ELSE "assistant"
          /\ n % 2 = 0 => es[n].isFinalMessage

\* The user tokens of turns 1 .. k plus the assistant tokens of the turns
\* before turn k.
ExpectedInput(es, k) ==
  SumOver([n \in DOMAIN es |-> EntryTokens(es[n])],
          {n \in DOMAIN es : n <= 2 * k - 1})

\* The accumulator's updates of conversation c in run r, in order.
TurnUpdates(r, c) ==
  SelectSeq(run[r].updates, LAMBDA u : u.conv = c /\ u.kind = "turn")

\* C4: once a conversation of [user, final assistant] turns without search
\* tokens is processed, its k-th update has inputTokens = the user tokens
\* up to turn k plus the assistant tokens of the earlier turns, and
\* outputTokens = the assistant tokens of turn k (two turns of one-token
\* messages: (1, 1) then (3, 1)).
C4_RollingContextExcludesOwnOutput ==
  \A r \in RunIds : \A c \in DOMAIN data :
    (run[r].pc = "done" /\ IsTurnConversation(data[c])) =>
      LET es == EntriesOf(data[c])
          ups == TurnUpdates(r, c)
      IN /\ Len(ups) = Len(es) \div 2
         /\ \A k \in DOMAIN ups :
              /\ ups[k].inputTokens = ExpectedInput(es, k)
              /\ ups[k].outputTokens = EntryTokens(es[2 * k])

\* C5: two runs on the same input that have both returned hold identical
\* aggregators, whatever the clock read in each and however their steps
\* interleaved.
C5_RunsAgree ==
  (run[1].pc = "done" /\ run[2].pc = "done") =>
    run[1].aggregator = run[2].aggregator

\* ------------------------------------------------------------------------
\* Properties of the token counter
\* ------------------------------------------------------------------------

\* This step is onmessage handling the response m of a context.
Delivered(m) ==
  /\ m \in toMain
  /\ m.type = ""
  /\ toMain' = toMain \ {m}
  /\ contexts' = contexts

\* C6: a delivered response settles the pending call whose id it carries,
\* with its count when it resolves, and leaves every other call as it was,
\* whatever else is outstanding.
C6_SettledByOwnId ==
  [][\A m \in toMain :
       Delivered(m) =>
         /\ \A c \in DOMAIN calls \ {m.id} : calls'[c] = calls[c]
         /\ pendingRequests' = pendingRequests \ {m.id}
         /\ m.id \in pendingRequests =>
              /\ calls'[m.id].status \in {"resolved", "rejected"}
              /\ calls'[m.id].status = "resolved" =>
                   calls'[m.id].value = m.count
              /\ (m.hasCount /\ ~m.error) =>
                   calls'[m.id].status = "resolved"]_vars

\* A later request resolved with the encoder's count while an earlier one,
\* already posted, is still waiting for its response.
C6_Witness ==
  \E a \in DOMAIN calls : \E b \in DOMAIN calls :
    /\ a < b
    /\ calls[a].status = "pending" /\ calls[a].posted = 1
    /\ a \in pendingRequests
    /\ calls[b].status = "resolved"
    /\ calls[b].value = EncodedLength(calls[b].text)

\* C7: a request is posted at most once, and only to a context that has
\* itself emitted the ready signal by then.
C7_PostedOnlyToReadyContext ==
  \A c \in DOMAIN calls :
    /\ calls[c].posted <= 1
    /\ calls[c].posted = 1 => calls[c].readyAtPost

\* This step is onerror handling a crash.
CrashHandled == crashes' = crashes + 1

\* C8: the handler of a crash rejects every pending request, empties both
\* maps, clears readiness and the handle; and a call made while the handle
\* is cleared gets a context that did not exist before.
C8_CrashRejectsAndInvalidates ==
  [][/\ CrashHandled =>
          /\ \A c \in pendingRequests : calls'[c].status = "rejected"
          /\ pendingRequests' = {} /\ errorCallbacks' = {}
          /\ ~workerReady'
          /\ worker' = NoWorker
     /\ (worker = NoWorker /\ nextRequestId' = nextRequestId + 1) =>
          /\ worker' \notin DOMAIN contexts
          /\ worker' \in DOMAIN contexts'
          /\ ~contexts'[worker'].crashed /\ ~contexts'[worker'].terminated
          /\ calls'[nextRequestId].tokenizerWorker = worker']_vars

\* A crash rejected a request of the crashed context, and a later call
\* holds a context other than the crashed one, which is the handle now.
C8_Witness ==
  /\ crashes = 1
  /\ \E a \in DOMAIN calls : \E b \in DOMAIN calls :
       /\ a < b
       /\ calls[a].status = "rejected"
       /\ contexts[calls[a].tokenizerWorker].crashed
       /\ a \notin pendingRequests
       /\ calls[b].tokenizerWorker # calls[a].tokenizerWorker
       /\ ~contexts[calls[b].tokenizerWorker].crashed
       /\ worker = calls[b].tokenizerWorker

\* This step is terminateTokenizerWorker tearing a context down.
TornDown ==
  \E w \in DOMAIN contexts : ~contexts[w].terminated /\ contexts'[w].terminated

\* C9: teardown settles with a rejection every call that was pending when
\* it ran.
C9_TeardownRejectsPending ==
  [][TornDown =>
       \A c \in pendingRequests : calls'[c].status = "rejected"]_vars

\* C10: a response with an error, fallbackUsed and a count resolves its
\* pending call with that count and removes the call from both maps.
C10_FallbackResolves ==
  [][\A m \in toMain :
       (Delivered(m) /\ m.error /\ m.fallbackUsed /\ m.hasCount
          /\ m.id \in pendingRequests /\ m.id \in errorCallbacks) =>
         /\ calls[m.id].status = "pending"
         /\ calls'[m.id].status = "resolved"
         /\ calls'[m.id].value = m.count
         /\ m.id \notin pendingRequests' /\ m.id \notin errorCallbacks']_vars

\* A call resolved with the fallback estimate of its text and removed from
\* the pending map.
C10_Witness ==
  \E c \in DOMAIN calls :
    /\ calls[c].status = "resolved"
    /\ calls[c].value = FallbackCount(calls[c].text)
    /\ calls[c].value # EncodedLength(calls[c].text)
    /\ c \notin pendingRequests

\* ------------------------------------------------------------------------
\* C11
\* ------------------------------------------------------------------------

\* C11: a tokenization failure for one message never aborts the
\* conversation or the batch: no processConversations call ends with its
\* promise rejected.
C11_RunNeverAborts ==
  \A r \in RunIds : run[r].pc # "rejected"

\* ------------------------------------------------------------------------
\* C12
\* ------------------------------------------------------------------------

\* C12: where the background context cannot be constructed, every
\* countTextTokens call resolves, to ceil(length / 4) for its text, and
\* neither a request id nor a pending entry is allocated.
C12_HeuristicWithoutContext ==
  ~CanConstructWorker(environment) =>
    /\ nextRequestId = 0
    /\ pendingRequests = {} /\ errorCallbacks = {}
    /\ \A c \in immediate :
         c.status = "resolved" /\ c.value = CeilDiv(c.text, 4)

\* ------------------------------------------------------------------------
\* C13
\* ------------------------------------------------------------------------

\* No error event was handled and no context was torn down so far.
Undisturbed ==
  /\ crashes = 0
  /\ \A w \in DOMAIN contexts : ~contexts[w].terminated

\* C13: the context is created lazily and reused: none exists before the
\* first call with a non-empty text, and as long as there was neither a
\* crash nor a teardown one context is all that was ever created, it is the
\* live handle, and every request was issued on it and posted to it.
C13_OneContextReused ==
  /\ nextRequestId = 0 => DOMAIN contexts = {} /\ worker = NoWorker
  /\ Undisturbed =>
       /\ Cardinality(DOMAIN contexts) <= 1
       /\ nextRequestId > 0 => DOMAIN contexts = {worker}
       /\ \A c \in DOMAIN calls : calls[c].tokenizerWorker = worker
       /\ \A w \in DOMAIN contexts :
            \A k \in DOMAIN contexts[w].inbox :
              calls[contexts[w].inbox[k].id].tokenizerWorker = w

\* Two requests in a row, both posted, on the one context ever created.
C13_Witness ==
  /\ Undisturbed
  /\ DOMAIN calls = {0, 1}
  /\ \A c \in DOMAIN calls : calls[c].posted >= 1
  /\ DOMAIN contexts = {1}

\* ------------------------------------------------------------------------
\* C14
\* ------------------------------------------------------------------------

\* The slugs owning a model bucket with message_count > 0 on some day.
UpdatedSlugs(usage) ==
  {m \in AllSlugs :
     \E d \in DOMAIN usage :
       m \in DOMAIN usage[d].models /\ usage[d].models[m].message_count > 0}

\* C14 as stated: after a run, allModelSlugs contains every slug that owns
\* a model bucket with message_count > 0 on any day.
C14_EveryUpdatedSlugListed ==
  \A r \in RunIds :
    run[r].pc = "done" =>
      UpdatedSlugs(UsageOf(r)) \subseteq run[r].aggregator.allModelSlugs

\* C14 amended: after a run, allModelSlugs contains every slug other than
\* the placeholder "unknown_model" that owns a model bucket with
\* message_count > 0 on any day.
C14_EveryRealUpdatedSlugListed ==
  \A r \in RunIds :
    run[r].pc = "done" =>
      UpdatedSlugs(UsageOf(r)) \ {UnknownModel}
        \subseteq run[r].aggregator.allModelSlugs

\* A finished run with updates for a text model, for an image model and
\* for the placeholder.
C14_Witness ==
  /\ run[1].pc = "done"
  /\ {"gpt-4o", "dalle-3", UnknownModel} \subseteq UpdatedSlugs(UsageOf(1))

\* ------------------------------------------------------------------------
\* C15
\* ------------------------------------------------------------------------

\* The slugs of the model that are in neither pricing table at load time.
Unpriced == AllSlugs \ (DOMAIN InitialModelCosts \cup DOMAIN IMAGE_MODEL_COSTS)

\* The day bucket and the model bucket an update finds or creates.
DayBefore(usage, d) ==
  IF d \in DOMAIN usage THEN usage[d] ELSE createDayBucket

ModelBefore(usage, d, m) ==
  IF m \in DOMAIN DayBefore(usage, d).models
  THEN DayBefore(usage, d).models[m] ELSE createBucketWithHours

\* Every update this step of run r makes for an unpriced slug is made (one
\* more message in its model bucket) and leaves the cost of its four
\* buckets as it was, whatever its token counts.
UnpricedCostsNothing(r) ==
  LET old == run[r].updates
      new == run'[r].updates
      usage == UsageOf(r)
      usage2 == run'[r].aggregator.usageByDay
  IN \A k \in DOMAIN new \ DOMAIN old :
       new[k].modelSlug \in Unpriced =>
         LET d == new[k].dayKey
             h == new[k].hour
             m == new[k].modelSlug
         IN /\ usage2[d].models[m].message_count
                 = ModelBefore(usage, d, m).message_count + 1
            /\ usage2[d].models[m].cost = ModelBefore(usage, d, m).cost
            /\ usage2[d].models[m].hours[h].cost
                 = ModelBefore(usage, d, m).hours[h].cost
            /\ usage2[d].total.cost = DayBefore(usage, d).total.cost
            /\ usage2[d].total.hours[h].cost
                 = DayBefore(usage, d).total.hours[h].cost
            /\ usage2[d].models[m].cost = 0

\* When this step of run r returns the aggregator, each of the slugs that
\* got an update is a member of allModelSlugs.
ListedAtReturn(r, slugs) ==
  run[r].pc # "done" /\ run'[r].pc = "done" =>
    slugs \cap UpdatedSlugs(run'[r].aggregator.usageByDay)
      \subseteq run'[r].aggregator.allModelSlugs

\* C15 as stated: for every slug in neither pricing table, each update adds
\* cost 0 to its four buckets and succeeds, and the slug is a member of
\* allModelSlugs after the run.
C15_UnpricedIsFreeAndListed ==
  [][\A r \in RunIds :
       UnpricedCostsNothing(r) /\ ListedAtReturn(r, Unpriced)]_vars

\* C15 amended: for every slug in neither pricing table, each update adds
\* cost 0 to its four buckets and succeeds, and the slug, unless it is the
\* placeholder "unknown_model", is a member of allModelSlugs after the run.
C15_UnpricedIsFreeAndRealListed ==
  [][\A r \in RunIds :
       /\ UnpricedCostsNothing(r)
       /\ ListedAtReturn(r, Unpriced \ {UnknownModel})]_vars

\* A finished run in which "foo-bar" was charged tokens at no cost.
C15_Witness ==
  /\ run[1].pc = "done"
  /\ "foo-bar" \in run[1].aggregator.allModelSlugs
  /\ \E d \in DOMAIN UsageOf(1) :
       /\ "foo-bar" \in DOMAIN UsageOf(1)[d].models
       /\ UsageOf(1)[d].models["foo-bar"].input_tokens > 0
       /\ UsageOf(1)[d].models["foo-bar"].output_tokens > 0
       /\ UsageOf(1)[d].models["foo-bar"].cost = 0

\* ------------------------------------------------------------------------
\* C16
\* ------------------------------------------------------------------------

RECURSIVE DayCosts(_, _)
\* The cost of the day totals of the days of the set days, one by one.
DayCosts(usage, days) ==
  IF days = {} THEN 0
  ELSE LET d == CHOOSE x \in days : TRUE
       IN usage[d].total.cost + DayCosts(usage, days \ {d})

RECURSIVE ModelCosts(_, _)
\* The cost of the (day, model) buckets of the set pairs, one by one.
ModelCosts(usage, pairs) ==
  IF pairs = {} THEN 0
  ELSE LET p == CHOOSE x \in pairs : TRUE
       IN usage[p[1]].models[p[2]].cost + ModelCosts(usage, pairs \ {p})

C17_NoTimestampUnderUnknownDay ==
  \A r \in RunIds :
    /\ \A k \in DOMAIN run[r].updates :
         data[run[r].updates[k].conv].create_time.kind = "missing"
           => run[r].updates[k].dayKey = UnknownDay
    /\ (\A c \in DOMAIN data :
          data[c].isObject => data[c].create_time.kind = "missing")
         => DOMAIN UsageOf(r) \subseteq {UnknownDay}

\* ------------------------------------------------------------------------
\* C18
\* ------------------------------------------------------------------------

\* Bucket (or hour bucket) b2 is b1 with the deltas and one message added,
\* and the same conversation_count.
Added(b2, b1, inputTokens, outputTokens, cost) ==
  /\ b2.input_tokens = b1.input_tokens + inputTokens
  /\ b2.output_tokens = b1.output_tokens + outputTokens
  /\ b2.cost = b1.cost + cost
  /\ b2.message_count = b1.message_count + 1
  /\ b2.conversation_count = b1.conversation_count

\* The effect of the one update u on usage is usage2: the deltas in the four
\* places, and nothing else.
FourPlaces(usage, usage2, u) ==
  LET d == u.dayKey
      h == u.hour
      m == u.modelSlug
      total == DayBefore(usage, d).total
      total2 == usage2[d].total
      bucket == ModelBefore(usage, d, m)
      bucket2 == usage2[d].models[m]
      cost == total2.cost - total.cost
  IN /\ Added(bucket2.hours[h], bucket.hours[h],
              u.inputTokens, u.outputTokens, cost)
     /\ Added(bucket2, bucket, u.inputTokens, u.outputTokens, cost)
     /\ Added(total2.hours[h], total.hours[h],
              u.inputTokens, u.outputTokens, cost)
     /\ Added(total2, total, u.inputTokens, u.outputTokens, cost)
     /\ \A g \in Hours \ {h} :
          bucket2.hours[g] = bucket.hours[g] /\ total2.hours[g] = total.hours[g]
     /\ DOMAIN usage2[d].models = DOMAIN DayBefore(usage, d).models \cup {m}
     /\ \A n \in DOMAIN usage2[d].models \ {m} :
          usage2[d].models[n] = usage[d].models[n]
     /\ DOMAIN usage2 = DOMAIN usage \cup {d}
     /\ \A e \in DOMAIN usage2 \ {d} : usage2[e] = usage[e]

\* C18: one updateAggregatorUsage call adds the same token and cost deltas
\* and one message in exactly four places (the hour and the totals of the
\* model bucket and of the day total) and leaves every conversation_count,
\* every other hour, every other model bucket and every other day as it was.
C18_UpdateTouchesFourPlaces ==
  [][\A r \in RunIds :
       Len(run'[r].updates) = Len(run[r].updates) + 1 =>
         FourPlaces(UsageOf(r), run'[r].aggregator.usageByDay,
                    run'[r].updates[Len(run'[r].updates)])]_vars

\* An update was made on a day that already held another model bucket,
\* while another day had counted its conversation.
C18_Witness ==
  \E j, k, l \in DOMAIN run[1].updates :
    /\ j < l /\ k < l
    /\ run[1].updates[l].kind = "turn"
    /\ run[1].updates[j].dayKey # run[1].updates[l].dayKey
    /\ run[1].updates[k].dayKey = run[1].updates[l].dayKey
    /\ run[1].updates[k].modelSlug # run[1].updates[l].modelSlug
    /\ UsageOf(1)[run[1].updates[j].dayKey].total.conversation_count > 0

\* ------------------------------------------------------------------------
\* C19
\* ------------------------------------------------------------------------

\* C19: once the pre-scan of a run is over, and so from its first usage
\* update until it returns, no step adds, removes or modifies a pricing
\* entry, the pre-scan of a second call over the same input included; and
\* no pre-scan overwrites a rate the table had when the module was loaded.
C19_PricingFixedAfterPreScan ==
  [][/\ run[1].pc # "scan" => MODEL_COSTS' = MODEL_COSTS
     /\ \A m \in DOMAIN InitialModelCosts :
          m \in DOMAIN MODEL_COSTS' /\ MODEL_COSTS'[m] = InitialModelCosts[m]
    ]_vars

\* The second pre-scan has run while the first run, which found a slug to
\* add and a priced slug to keep, was between two usage updates.
C19_Witness ==
  /\ run[2].pc = "range"
  /\ run[1].pc \in {"nodes", "flat", "rollup", "conv"}
  /\ run[1].updates # << >>
  /\ "foo-bar" \in DOMAIN MODEL_COSTS
  /\ "gpt-4o" \in FoundModels(data)

\* ------------------------------------------------------------------------
\* C20
\* ------------------------------------------------------------------------

\* The updates the step of run r appends to the history.
NewUpdates(r) ==
  SubSeq(run'[r].updates, Len(run[r].updates) + 1, Len(run'[r].updates))

\* C20: the step that processes a tool message carrying generated images
\* adds, over all image-model buckets together, as many images as the
\* message has image-asset-pointer parts, each with input tokens 0: every
\* generated part is counted once, also when the author is dalle.text2im.
C20_EachImageCountedOnce ==
  [][\A r \in RunIds :
       (/\ run[r].pc = "nodes"
        /\ run'[r] # run[r]
        /\ run'[r].pc # "rejected") =>
         LET node == data[run[r].i].mapping[run[r].nodeIdx]
             new == NewUpdates(r)
         IN (node.hasMessage /\ node.role = "tool"
             /\ NumImages(PartsOf(node)) > 0) =>
              /\ \A k \in DOMAIN new :
                   new[k].modelSlug \in ImageSlugs /\ new[k].inputTokens = 0
              /\ SumSeq([k \in DOMAIN new |-> new[k].outputTokens])
                   = NumImages(PartsOf(node))]_vars

\* ------------------------------------------------------------------------
\* C21
\* ------------------------------------------------------------------------

\* The input without its entries that are not objects.
ObjectsOf(d) == SelectSeq(d, LAMBDA c : c.isObject)

\* C21: an entry that is not an object is skipped in every phase: the
\* pre-scan and the date range are those of the input without such entries,
\* and the step of Phase C that meets one changes no field of the
\* aggregator and no local but the loop index, which moves to the next
\* entry.
C21_NonObjectsSkipped ==
  [][\A r \in RunIds :
       /\ run[r].pc = "scan" /\ run'[r].pc = "range" =>
            MODEL_COSTS'
              = WithPlaceholders(MODEL_COSTS, FoundModels(ObjectsOf(data)))
       /\ run[r].pc = "range" /\ run'[r].pc = "conv" =>
            LET ts == NumericTimes(ObjectsOf(data))
            IN /\ run'[r].aggregator.startDate =
                    IF ts = {} THEN NoDate ELSE getDayKey(MinTime(ts))
               /\ run'[r].aggregator.endDate =
                    IF ts = {} THEN NoDate ELSE getDayKey(MaxTime(ts))
       /\ (/\ run[r].pc = "conv" /\ run[r].i <= Len(data)
           /\ ~data[run[r].i].isObject
           /\ run'[r] # run[r]) =>
            run'[r] = [run[r] EXCEPT !.i = run[r].i + 1]]_vars

\* A run that skipped a first entry and then made an update for the second.
C21_Witness ==
  /\ Len(data) = 2
  /\ ~data[1].isObject
  /\ \E k \in DOMAIN run[1].updates : run[1].updates[k].conv = 2

\* ------------------------------------------------------------------------
\* C22
\* ------------------------------------------------------------------------

\* The least t with side <= 512 * t.
Tiles(side) == CHOOSE t \in 0 .. side : 512 * (t - 1) < side /\ side <= 512 * t

\* The greatest n with n * long <= 2048 * short.
ScaledSide(short, long) ==
  CHOOSE n \in 0 .. 2048 : n * long <= 2048 * short /\ 2048 * short < (n + 1) * long

\* C22: the estimate is 85 for detail "low"; for detail "high" it is
\* 85 + 170 x ceil(w'/512) x ceil(h'/512), where (w', h') is (w, h) when
\* neither side exceeds 2048 and else the floor-scaling that makes the
\* larger side 2048; (1024,1024) gives 765, (512,512) gives 255,
\* (4096,1024) gives 765.
C22_ImageEstimate ==
  image.tokens # NotCounted =>
    LET w == image.width
        h == image.height
        w2 == IF w <= 2048 /\ h <= 2048 THEN w
              ELSE IF w >= h THEN 2048 ELSE ScaledSide(w, h)
        h2 == IF w <= 2048 /\ h <= 2048 THEN h
              ELSE IF h >= w THEN 2048 ELSE ScaledSide(h, w)
    IN /\ image.detail = "low" => image.tokens = 85
       /\ image.detail = "high" =>
            /\ image.tokens = 85 + 170 * Tiles(w2) * Tiles(h2)
            /\ w = 1024 /\ h = 1024 => image.tokens = 765
            /\ w = 512 /\ h = 512 => image.tokens = 255
            /\ w = 4096 /\ h = 1024 => image.tokens = 765

\* The estimate of an image that had to be scaled down to 4 x 1 tiles.
C22_Witness ==
  /\ image.width = 4096 /\ image.height = 1024 /\ image.detail = "high"
  /\ image.tokens = 765

\* ------------------------------------------------------------------------
\* C23
\* ------------------------------------------------------------------------

\* All the tokens the entries of a conversation can put into the context.
ConversationTokens(conversation) ==
  LET es == EntriesOf(conversation)
  IN SumOver([n \in DOMAIN es |-> EntryTokens(es[n]) + es[n].searchTokens],
             DOMAIN es)

\* C23: conversations are processed one at a time in input order: the loop
\* index never goes back; every usage update and every change of the
\* aggregator's days belongs to the conversation in progress and happens
\* before the index moves on; the rolling counters start at 0 with each
\* conversation, change only in the flat loop of the conversation in
\* progress, and so no update carries tokens of another conversation.
C23_OneConversationAtATime ==
  [][\A r \in RunIds :
       LET rec == run[r]
           rec2 == run'[r]
           new == NewUpdates(r)
       IN /\ rec2.i >= rec.i
          /\ rec2.i # rec.i =>
               /\ rec2.i = rec.i + 1 /\ rec2.pc = "conv"
               /\ rec.pc \in {"conv", "rollup"}
          /\ \A k \in DOMAIN new :
               /\ new[k].conv = rec.i
               /\ new[k].inputTokens <= ConversationTokens(data[rec.i])
               /\ \A j \in DOMAIN rec.updates : rec.updates[j].conv <= rec.i
          /\ rec2.aggregator.usageByDay # rec.aggregator.usageByDay =>
               /\ rec.i <= Len(data)
               /\ rec.pc \in {"conv", "nodes", "flat", "rollup"}
          /\ (\/ rec2.rollingContextTokens # rec.rollingContextTokens
              \/ rec2.rollingOutputTokens # rec.rollingOutputTokens) =>
               \/ rec.pc = "flat" /\ rec2.i = rec.i
               \/ /\ rec.pc = "conv"
                  /\ rec2.rollingContextTokens = 0
                  /\ rec2.rollingOutputTokens = 0
          /\ rec.pc = "conv" /\ rec2.pc \in {"nodes", "rollup"} =>
               rec2.rollingContextTokens = 0 /\ rec2.rollingOutputTokens = 0
    ]_vars

\* The second conversation committed a turn after the first one had.
C23_Witness ==
  \E j, k \in DOMAIN run[1].updates :
    /\ run[1].updates[j].conv = 1 /\ run[1].updates[j].kind = "turn"
    /\ run[1].updates[k].conv = 2 /\ run[1].updates[k].kind = "turn"
    /\ run[1].updates[k].inputTokens = ConversationTokens(data[2])

\* ------------------------------------------------------------------------
\* C24
\* ------------------------------------------------------------------------

\* The entry is one the accumulator commits at: assistant, final, no recap.
Commits(msg) ==
  msg.role = "assistant" /\ msg.isFinalMessage /\ ~msg.isReasoningRecap

\* The output tokens of the assistant entries of msgs, recaps aside, at the
\* positions first .. last.
AssistantOutput(msgs, first, last) ==
  SumOver([n \in DOMAIN msgs |-> msgs[n].outputTokens],
          {n \in DOMAIN msgs :
             /\ first <= n /\ n <= last
             /\ msgs[n].role = "assistant" /\ ~msgs[n].isReasoningRecap})

\* The positions among the first n entries of msgs the accumulator commits at.
CommitsUpTo(msgs, n) == {m \in DOMAIN msgs : m <= n /\ Commits(msgs[m])}

\* What C24 says of the locals rec of a run inside the flat loop, msgIdx - 1
\* entries being processed.
CommitsAtFinals(rec) ==
  LET msgs == rec.nodeMessages
      seen == rec.msgIdx - 1
      at == CommitsUpTo(msgs, seen)
      ups == SelectSeq(rec.updates,
                       LAMBDA u : u.conv = rec.i /\ u.kind = "turn")
      \* the position of the k-th commit, and of the one before it
      pos(k) == CHOOSE m \in at : Cardinality({x \in at : x <= m}) = k
      prev(k) == IF k = 1 THEN 0 ELSE pos(k - 1)
      last == IF at = {} THEN 0 ELSE pos(Cardinality(at))
  IN /\ Len(ups) = Cardinality(at)
     /\ \A k \in DOMAIN ups :
          /\ ups[k].outputTokens = AssistantOutput(msgs, prev(k) + 1, pos(k))
          /\ k > 1 => ups[k - 1].inputTokens <= ups[k].inputTokens
          /\ ups[k].inputTokens <= rec.rollingContextTokens
     /\ rec.rollingOutputTokens = AssistantOutput(msgs, last + 1, seen)

\* C24: within a conversation an update is committed exactly at each
\* assistant entry that is final and no recap; the context counter never
\* decreases, so the inputTokens of successive updates do not decrease; the
\* output counter is 0 after each commit, so each update's outputTokens is
\* the sum of the assistant output tokens since the commit before.
C24_CommitsExactlyAtFinals ==
  [][\A r \in RunIds :
       (run[r].pc = "flat" /\ run'[r] # run[r]) =>
         /\ CommitsAtFinals(run'[r])
         /\ run'[r].rollingContextTokens >= run[r].rollingContextTokens
         /\ Len(NewUpdates(r)) =
              IF Commits(run[r].nodeMessages[run[r].msgIdx]) THEN 1 ELSE 0
         /\ NewUpdates(r) # << >> => run'[r].rollingOutputTokens = 0]_vars

\* A conversation of two turns with both updates committed, after one
\* whose update carries the output of two assistant entries.
C24_Witness ==
  /\ run[1].pc = "rollup" /\ run[1].i = 2
  /\ Cardinality(CommitsUpTo(run[1].nodeMessages, Len(run[1].nodeMessages))) = 2
  /\ \E j, k \in DOMAIN run[1].updates :
       /\ j < k
       /\ run[1].updates[j].conv = 2 /\ run[1].updates[k].conv = 2
       /\ run[1].updates[j].inputTokens < run[1].updates[k].inputTokens
       /\ run[1].updates[k].outputTokens > 0
  /\ data[1] = TwoPartConv
  /\ \E k \in DOMAIN run[1].updates :
       run[1].updates[k].conv = 1 /\ run[1].updates[k].outputTokens = 3

\* ------------------------------------------------------------------------
\* C25
\* ------------------------------------------------------------------------

\* C25: the iteration of the flat loop at a reasoning recap changes neither
\* counter nor the discovered-model set, commits no update and leaves the
\* aggregator alone, whatever the entry's role, final flag and tokens; at
\* any other entry the search tokens of the entry are added to the context
\* counter, alone when the role adds nothing else.
C25_RecapSkippedSearchAdded ==
  [][\A r \in RunIds :
       (run[r].pc = "flat" /\ run'[r] # run[r]) =>
         LET rec == run[r]
             rec2 == run'[r]
             msg == rec.nodeMessages[rec.msgIdx]
         IN /\ msg.isReasoningRecap =>
                 /\ rec2.rollingContextTokens = rec.rollingContextTokens
                 /\ rec2.rollingOutputTokens = rec.rollingOutputTokens
                 /\ rec2.flatModelsUsed = rec.flatModelsUsed
                 /\ rec2.updates = rec.updates
                 /\ rec2.aggregator = rec.aggregator
            /\ ~msg.isReasoningRecap =>
                 /\ rec2.rollingContextTokens
                      >= rec.rollingContextTokens + msg.searchTokens
                 /\ msg.role \notin {"user", "system", "tool", "assistant"} =>
                      rec2.rollingContextTokens
                        = rec.rollingContextTokens + msg.searchTokens]_vars

\* The conversation with search results and a final recap is done: its
\* update holds the search tokens and none of the recap.
C25_Witness ==
  /\ run[1].pc = "rollup"
  /\ data[run[1].i] = SearchConv
  /\ \E k \in DOMAIN run[1].updates :
       /\ run[1].updates[k].conv = run[1].i
       /\ run[1].updates[k].inputTokens = 7
       /\ run[1].updates[k].outputTokens = 2

\* ------------------------------------------------------------------------
\* C26
\* ------------------------------------------------------------------------

\* C26: request ids are handed out in increasing order and never again:
\* the calls made so far hold exactly the ids below nextRequestId, whatever
\* crashed, was torn down or re-created; every key of the pending maps is
\* below nextRequestId; and every request or response on its way carries
\* the id of a call issued on the context it travels to or from, so that a
\* late response of an old context never has the id of a later call.
C26_IdsNeverReused ==
  /\ DOMAIN calls = 0 .. nextRequestId - 1
  /\ pendingRequests \subseteq 0 .. nextRequestId - 1
  /\ errorCallbacks \subseteq 0 .. nextRequestId - 1
  /\ \A m \in toMain :
       m.type = "" =>
         m.id \in DOMAIN calls /\ calls[m.id].tokenizerWorker = m.from
  /\ \A w \in DOMAIN contexts :
       \A k \in DOMAIN contexts[w].inbox :
         /\ contexts[w].inbox[k].id \in DOMAIN calls
         /\ calls[contexts[w].inbox[k].id].tokenizerWorker = w

\* The first context crashed and was replaced; its response to the first
\* call is still on its way while the second call waits on the new context.
C26_Witness ==
  /\ crashes > 0
  /\ worker = 2
  /\ 1 \in pendingRequests /\ calls[1].tokenizerWorker = 2
  /\ \E m \in toMain : m.type = "" /\ m.from = 1 /\ m.id = 0

\* ------------------------------------------------------------------------
\* C27
\* ------------------------------------------------------------------------

\* C27: when the worker handles a well-formed request {id, text} it posts
\* one response, which carries that id and a count, with or without an
\* encoder and whether or not encoding throws; when it handles a malformed
\* one it posts nothing; so no response posted has an id and no count.
C27_OneResponseWithCount ==
  [][\A w \in DOMAIN contexts :
       (/\ w \in DOMAIN contexts'
        /\ contexts[w].inbox # << >>
        /\ contexts'[w].inbox = Tail(contexts[w].inbox)) =>
         LET request == Head(contexts[w].inbox)
         IN /\ IsWellFormed(request) =>
                 \E m \in toMain' :
                   /\ toMain' = toMain \cup {m}
                   /\ m.from = w /\ m.type = ""
                   /\ m.id = request.id
                   /\ m.hasCount /\ m.count >= 0
                   /\ m.error => m.count = CeilDiv(request.text, 4)
            /\ ~IsWellFormed(request) => toMain' = toMain
            /\ \A m \in toMain' : m.type = "" => m.hasCount]_vars

\* The worker without encoder has answered a request by a count and an
\* error, and has before it a message without id.
C27_Witness ==
  /\ 1 \in DOMAIN contexts
  /\ ~contexts[1].enc
  /\ \E m \in toMain : m.id = 7 /\ m.error /\ m.hasCount /\ m.count = 1
  /\ contexts[1].inbox # << >>
  /\ Head(contexts[1].inbox).id = UndefinedId

\* ------------------------------------------------------------------------
\* C28
\* ------------------------------------------------------------------------

\* The call has a timer of line 430 armed.
Polling(id) == id \in DOMAIN calls /\ calls[id].timer

\* C28: in every fair execution a call whose retry timer is armed reaches
\* a moment where it is armed no more: the loop of attemptPostMessage
\* stops, whatever becomes of the context the call captured.
C28_RetryLoopStops ==
  \A id \in 0 .. MaxRequests - 1 : Polling(id) ~> ~Polling(id)

\* ------------------------------------------------------------------------
\* C29
\* ------------------------------------------------------------------------

\* C29: between two conversations and at the end of the run, a day total
\* and every model bucket of a day that counts a conversation also counts
\* a message: no bucket is credited with a conversation that committed no
\* update to it, and no model bucket exists with all counters at zero
\* but the conversation count.
C29_ConversationsHaveMessages ==
  \A r \in RunIds :
    run[r].pc \in {"conv", "done"} =>
      \A d \in DOMAIN UsageOf(r) :
        /\ UsageOf(r)[d].total.conversation_count > 0 =>
             UsageOf(r)[d].total.message_count > 0
        /\ \A m \in DOMAIN UsageOf(r)[d].models :
             UsageOf(r)[d].models[m].conversation_count > 0 =>
               UsageOf(r)[d].models[m].message_count > 0

\* ------------------------------------------------------------------------
\* C30
\* ------------------------------------------------------------------------

\* C30: once Phase B has run, startDate and endDate, when defined, enclose
\* the day key of every conversation whose create_time is a number, in
\* seconds or in milliseconds; so startDate <= endDate.
C30_DaysWithinRange ==
  \A r \in RunIds :
    (/\ run[r].pc \in {"conv", "nodes", "flat", "rollup", "done"}
     /\ run[r].aggregator.startDate # NoDate
     /\ run[r].aggregator.endDate # NoDate) =>
      /\ run[r].aggregator.startDate <= run[r].aggregator.endDate
      /\ \A t \in NumericTimes(data) :
           /\ run[r].aggregator.startDate <= getDayKey(t)
           /\ getDayKey(t) <= run[r].aggregator.endDate

====
